---- MODULE Spec2Model ----
(***************************************************************************)
(* Model of the conflict detection, slot suggestion and selection parsing  *)
(* of the voice scheduling agent (backend/core/calendar_service.py and     *)
(* backend/core/conversation_flow.py).                                     *)
(*                                                                         *)
(* Time is counted in minutes.  An aware datetime is a record              *)
(* [t |-> instant in UTC minutes, off |-> UTC offset of its tzinfo]:       *)
(* comparisons and equality of aware datetimes use the instant, strftime   *)
(* and replace(hour=..) use the wall clock t + off.                        *)
(***************************************************************************)
EXTENDS Integers, Sequences, FiniteSets, TLC

\* ------------------------------------------------------------------------
\* Bounds of the model
\* ------------------------------------------------------------------------
MaxEvents == 2        \* events on the calendar
MaxN == 4             \* largest num_suggestions passed by a direct caller
MaxBookings == 1      \* events created in one behaviour
MaxChanges == 1       \* changes of the calendar made by somebody else
MaxWords == 3         \* words of a generated utterance
MaxInbox == 1         \* messages of a connection that wait to be received
MaxAttendees == 3     \* entries of an attendee list

\* ------------------------------------------------------------------------
\* Program constants
\* ------------------------------------------------------------------------
BUFFER_MINUTES == 15
DEFAULT_MEETING_DURATION == 60
MinutesPerDay == 1440
WorkDayStartHour == 9
NextDayWindowHours == 12
CalOff == 0           \* the calendar API returns '...Z' strings: offset 0

common_times == <<10, 14, 16>>

\* ------------------------------------------------------------------------
\* datetime helpers
\* ------------------------------------------------------------------------
DT(t, off) == [t |-> t, off |-> off]

\* datetime + timedelta(minutes=m): same tzinfo, instant moved
Plus(d, m) == [d EXCEPT !.t = @ + m]

\* strftime("%Y-%m-%d %H:%M"): the wall clock of the datetime's own tzinfo,
\* the offset itself is not printed
strftime(d) == d.t + d.off

\* d.replace(hour=h, minute=0, second=0, microsecond=0)
ReplaceHour(d, h) ==
    DT(((strftime(d) \div MinutesPerDay) * MinutesPerDay + h * 60) - d.off, d.off)

\* Python max(a, b) on aware datetimes: b only if b > a
\* as PyMax, the second argument returned
PyMax_second(a, b) == b

PyMax(a, b) == IF b.t > a.t THEN b ELSE a

At(day, h, m) == day * MinutesPerDay + h * 60 + m

\* ------------------------------------------------------------------------
\* Calendar events.  kind:
\*   "ok"      start and end carry a dateTime with a UTC offset
\*   "nostart" the start has no dateTime (all-day event under the field mask)
\*   "noend"   the end has no dateTime
\*   "naive"   dateTime strings without a UTC offset
\* ------------------------------------------------------------------------
Ev(id, s, e, kind) == [id |-> id, s |-> s, e |-> e, kind |-> kind]

HasStartStr(ev) == ev.kind # "nostart"
\* as HasEndStr, every event taken to carry an end dateTime
HasEndStr_always(ev) == TRUE

HasEndStr(ev) == ev.kind # "noend"

\* _parse_datetime_string of an event's dateTime
ParseStart(ev) == DT(ev.s, CalOff)
ParseEnd(ev) == DT(ev.e, CalOff)

Ok(v) == [err |-> "", val |-> v]
Err(name) == [err |-> name, val |-> DT(0, 0)]

\* ------------------------------------------------------------------------
\* has_conflict_with_buffer: "True", "False" or the exception raised
\* ------------------------------------------------------------------------
\* as Overlap, with the two boundary comparisons strict
Overlap_strict(ev, new_start, new_end) ==
    ~ (new_end.t < ParseStart(ev).t - BUFFER_MINUTES
       \/ new_start.t > ParseEnd(ev).t + BUFFER_MINUTES)

\* as Overlap, the buffer kept only before the existing event
Overlap_buffer_before(ev, new_start, new_end) ==
    ~ (new_end.t <= ParseStart(ev).t - BUFFER_MINUTES
       \/ new_start.t >= ParseEnd(ev).t)

Overlap(ev, new_start, new_end) ==
    ~ (new_end.t <= ParseStart(ev).t - BUFFER_MINUTES
       \/ new_start.t >= ParseEnd(ev).t + BUFFER_MINUTES)

\* as has_conflict_with_buffer, the offsets of the existing events not
\* looked at
RECURSIVE has_conflict_offsets_unchecked(_, _, _)
has_conflict_offsets_unchecked(existing_events, new_start, new_end) ==
    IF existing_events = <<>> THEN "False"
    ELSE LET event == Head(existing_events)
             rest == Tail(existing_events)
         IN  IF ~HasStartStr(event) \/ ~HasEndStr(event)
             THEN has_conflict_offsets_unchecked(rest, new_start, new_end)
             ELSE IF Overlap(event, new_start, new_end) THEN "True"
             ELSE has_conflict_offsets_unchecked(rest, new_start, new_end)

RECURSIVE has_conflict_with_buffer(_, _, _)
has_conflict_with_buffer(existing_events, new_start, new_end) ==
    IF existing_events = <<>> THEN "False"
    ELSE LET event == Head(existing_events)
             rest == Tail(existing_events)
         IN  IF ~HasStartStr(event) \/ ~HasEndStr(event)
             THEN has_conflict_with_buffer(rest, new_start, new_end)
             ELSE IF event.kind = "naive" THEN "ValueError"
             ELSE IF Overlap(event, new_start, new_end) THEN "True"
             ELSE has_conflict_with_buffer(rest, new_start, new_end)

\* ------------------------------------------------------------------------
\* sorted(existing_events, key=...): stable insertion sort on the start
\* string; an absent start string sorts as '' when the key has a default.
\* ------------------------------------------------------------------------
SortKey(ev) == IF HasStartStr(ev) THEN ev.s ELSE -1

RECURSIVE InsertSorted(_, _)
InsertSorted(ev, sorted) ==
    IF sorted = <<>> THEN <<ev>>
    ELSE IF SortKey(ev) < SortKey(Head(sorted))
         THEN <<ev>> \o sorted
         ELSE <<Head(sorted)>> \o InsertSorted(ev, Tail(sorted))

RECURSIVE SortByStart(_)
SortByStart(evs) ==
    IF evs = <<>> THEN <<>>
    ELSE InsertSorted(evs[Len(evs)], SortByStart(SubSeq(evs, 1, Len(evs) - 1)))

\* ------------------------------------------------------------------------
\* suggest_next_slot
\* ------------------------------------------------------------------------
RECURSIVE NextSlotSweep(_, _, _)
NextSlotSweep(evs, current, duration_minutes) ==
    IF evs = <<>> THEN Ok(current)
    ELSE LET event == Head(evs) IN
         IF HasStartStr(event) /\ HasEndStr(event)
         THEN IF event.kind = "naive" THEN Err("ValueError")
              ELSE IF current.t + duration_minutes
                        <= ParseStart(event).t - BUFFER_MINUTES
                   THEN Ok(current)
                   ELSE NextSlotSweep(Tail(evs),
                            PyMax(current, Plus(ParseEnd(event), BUFFER_MINUTES)),
                            duration_minutes)
         ELSE NextSlotSweep(Tail(evs), current, duration_minutes)

suggest_next_slot(existing_events, desired_start, duration_minutes) ==
    \* the sort key is None for an event without a start string: comparing
    \* it with any other key raises TypeError
    IF Len(existing_events) >= 2
       /\ \E i \in DOMAIN existing_events : ~HasStartStr(existing_events[i])
    THEN Err("TypeError")
    ELSE NextSlotSweep(SortByStart(existing_events), desired_start, duration_minutes)

\* ------------------------------------------------------------------------
\* _find_available_slot_in_range: Ok(slot), Err("None") or an exception
\* ------------------------------------------------------------------------
RECURSIVE RangeSweep(_, _, _, _, _)
RangeSweep(evs, current, range_start, range_end, duration_minutes) ==
    IF evs = <<>>
    THEN IF current.t + duration_minutes <= range_end.t
         THEN Ok(current) ELSE Err("None")
    ELSE LET event == Head(evs) IN
         IF HasStartStr(event) /\ HasEndStr(event)
         THEN IF event.kind = "naive" THEN Err("TypeError")
              ELSE IF ParseEnd(event).t <= range_start.t
                      \/ ParseStart(event).t >= range_end.t
                   THEN RangeSweep(Tail(evs), current, range_start, range_end,
                                   duration_minutes)
              ELSE IF current.t + duration_minutes
                        <= ParseStart(event).t - BUFFER_MINUTES
                      /\ current.t + duration_minutes <= range_end.t
                   THEN Ok(current)
                   ELSE RangeSweep(Tail(evs),
                            PyMax(current, Plus(ParseEnd(event), BUFFER_MINUTES)),
                            range_start, range_end, duration_minutes)
         ELSE RangeSweep(Tail(evs), current, range_start, range_end,
                         duration_minutes)

\* as find_available_slot_in_range, the end of the range not looked at
find_available_slot_unbounded(existing_events, range_start, range_end, duration_minutes) ==
    suggest_next_slot(existing_events, range_start, duration_minutes)

find_available_slot_in_range(existing_events, range_start, range_end, duration_minutes) ==
    RangeSweep(SortByStart(existing_events), range_start, range_start, range_end,
               duration_minutes)

\* ------------------------------------------------------------------------
\* fetch_existing_events: the events of the calendar that end after
\* start_dt and start before end_dt, ordered by start time; the empty list
\* when the calendar request fails (the exception is swallowed).
\* ------------------------------------------------------------------------
EarliestOf(S) ==
    CHOOSE ev \in S : \A o \in S : ev.s < o.s \/ (ev.s = o.s /\ ev.id <= o.id)

RECURSIVE OrderByStartTime(_)
OrderByStartTime(S) ==
    IF S = {} THEN <<>>
    ELSE LET first == EarliestOf(S)
         IN  <<first>> \o OrderByStartTime(S \ {first})

fetch_existing_events(calendar, start_dt, end_dt, requestOk) ==
    IF ~requestOk THEN <<>>
    ELSE OrderByStartTime({ev \in calendar : ev.e > start_dt.t /\ ev.s < end_dt.t})

\* ------------------------------------------------------------------------
\* suggest_multiple_slots
\* ------------------------------------------------------------------------
Slot(start, duration_minutes, strategy) ==
    [start |-> start, end |-> Plus(start, duration_minutes), strategy |-> strategy]

\* "x not in [s['start'] for s in suggestions]": datetime equality
StartIn(start, suggestions) ==
    \E i \in DOMAIN suggestions : suggestions[i].start.t = start.t

OkList(l) == [err |-> "", val |-> l]
ErrList(name) == [err |-> name, val |-> <<>>]

\* as EarlierSameDay, the earlier slot put before the suggestions
EarlierSameDay_first(suggestions, existing_events, desired_start, duration_minutes) ==
    LET same_day_start == ReplaceHour(desired_start, WorkDayStartHour) IN
    IF same_day_start.t < desired_start.t
    THEN LET earlier_slot == find_available_slot_in_range(
                 existing_events, same_day_start, desired_start, duration_minutes)
         IN  IF earlier_slot.err = "None" THEN OkList(suggestions)
             ELSE IF earlier_slot.err # "" THEN ErrList(earlier_slot.err)
             ELSE IF ~StartIn(earlier_slot.val, suggestions)
                  THEN OkList(<<Slot(earlier_slot.val, duration_minutes,
                                     "earlier_same_day")>> \o suggestions)
                  ELSE OkList(suggestions)
    ELSE OkList(suggestions)

\* Strategy 2: earlier in the same day
EarlierSameDay(suggestions, existing_events, desired_start, duration_minutes) ==
    LET same_day_start == ReplaceHour(desired_start, WorkDayStartHour) IN
    IF same_day_start.t < desired_start.t
    THEN LET earlier_slot == find_available_slot_in_range(
                 existing_events, same_day_start, desired_start, duration_minutes)
         IN  IF earlier_slot.err = "None" THEN OkList(suggestions)
             ELSE IF earlier_slot.err # "" THEN ErrList(earlier_slot.err)
             ELSE IF ~StartIn(earlier_slot.val, suggestions)
                  THEN OkList(Append(suggestions,
                         Slot(earlier_slot.val, duration_minutes, "earlier_same_day")))
                  ELSE OkList(suggestions)
    ELSE OkList(suggestions)

\* Strategy 3: same time next day, else next available slot tomorrow
NextDay(suggestions, next_day_events, desired_start, duration_minutes) ==
    LET next_day_slot == Plus(desired_start, MinutesPerDay)
        conflict == has_conflict_with_buffer(next_day_events, next_day_slot,
                        Plus(next_day_slot, duration_minutes))
    IN  IF conflict = "False"
        THEN OkList(Append(suggestions,
                 Slot(next_day_slot, duration_minutes, "next_day_same_time")))
        ELSE IF conflict # "True" THEN ErrList(conflict)
        ELSE LET tomorrow_available ==
                     suggest_next_slot(next_day_events, next_day_slot, duration_minutes)
             IN  IF tomorrow_available.err # "" THEN ErrList(tomorrow_available.err)
                 ELSE IF ~StartIn(tomorrow_available.val, suggestions)
                      THEN OkList(Append(suggestions,
                             Slot(tomorrow_available.val, duration_minutes,
                                  "next_day_available")))
                      ELSE OkList(suggestions)

\* Strategy 4: common meeting times, from the i-th hour of common_times on
RECURSIVE CommonTimes(_, _, _, _, _, _, _)
CommonTimes(i, suggestions, existing_events, desired_start, duration_minutes, num_suggestions, clock) ==
    IF i > Len(common_times) THEN OkList(suggestions)
    ELSE LET common_time_slot == ReplaceHour(desired_start, common_times[i]) IN
         IF common_time_slot.t # desired_start.t
            /\ common_time_slot.t > clock
            /\ ~StartIn(common_time_slot, suggestions)
         THEN LET conflict == has_conflict_with_buffer(existing_events,
                      common_time_slot, Plus(common_time_slot, duration_minutes))
              IN  IF conflict = "False"
                  THEN LET added == Append(suggestions,
                               Slot(common_time_slot, duration_minutes, "common_time"))
                       IN  IF Len(added) >= num_suggestions
                           THEN OkList(added)
                           ELSE CommonTimes(i + 1, added, existing_events,
                                    desired_start, duration_minutes,
                                    num_suggestions, clock)
                  ELSE IF conflict # "True" THEN ErrList(conflict)
                  ELSE CommonTimes(i + 1, suggestions, existing_events,
                           desired_start, duration_minutes, num_suggestions, clock)
         ELSE CommonTimes(i + 1, suggestions, existing_events, desired_start,
                  duration_minutes, num_suggestions, clock)

\* "Remove duplicates and limit to requested number": the key is the
\* strftime string of the start
RECURSIVE Unique(_, _, _, _)
Unique(suggestions, unique_suggestions, seen_times, num_suggestions) ==
    IF suggestions = <<>> THEN unique_suggestions
    ELSE LET suggestion == Head(suggestions)
             time_key == strftime(suggestion.start)
         IN  IF time_key \notin seen_times
             THEN LET kept == Append(unique_suggestions, suggestion) IN
                  IF Len(kept) >= num_suggestions THEN kept
                  ELSE Unique(Tail(suggestions), kept, seen_times \cup {time_key},
                              num_suggestions)
             ELSE Unique(Tail(suggestions), unique_suggestions, seen_times,
                         num_suggestions)

\* unique_suggestions[:num_suggestions] for num_suggestions >= 0
Limit(l, n) == SubSeq(l, 1, IF Len(l) < n THEN Len(l) ELSE n)

\* as UniqueAndLimit, without the limit to num_suggestions
UniqueAndLimit_unlimited(suggestions, num_suggestions) ==
    Unique(suggestions, <<>>, {}, Len(suggestions) + 1)

UniqueAndLimit(suggestions, num_suggestions) ==
    Limit(Unique(suggestions, <<>>, {}, num_suggestions), num_suggestions)

\* Strategies 3 and 4 and the final clean-up, from the suggestions of
\* strategies 1 and 2
NextDayAndCommonTimes(suggestions, existing_events, desired_start, duration_minutes, num_suggestions, calendar, requestOk, clock) ==
    LET next_day_slot == Plus(desired_start, MinutesPerDay)
        next_day_end == Plus(next_day_slot, NextDayWindowHours * 60)
        next_day_events == fetch_existing_events(calendar, next_day_slot,
                               next_day_end, requestOk)
        s3 == NextDay(suggestions, next_day_events, desired_start, duration_minutes)
    IN  IF s3.err # "" THEN s3
        ELSE LET s4 == CommonTimes(1, s3.val, existing_events, desired_start,
                           duration_minutes, num_suggestions, clock)
             IN  IF s4.err # "" THEN s4
                 ELSE OkList(UniqueAndLimit(s4.val, num_suggestions))

suggest_multiple_slots(existing_events, desired_start, duration_minutes, num_suggestions, calendar, requestOk, clock) ==
    LET next_slot == suggest_next_slot(existing_events, desired_start, duration_minutes)
    IN  IF next_slot.err # "" THEN ErrList(next_slot.err)
        ELSE
        LET s2 == EarlierSameDay(
                      <<Slot(next_slot.val, duration_minutes, "next_available")>>,
                      existing_events, desired_start, duration_minutes)
        IN  IF s2.err # "" THEN s2
            ELSE NextDayAndCommonTimes(s2.val, existing_events, desired_start,
                     duration_minutes, num_suggestions, calendar, requestOk, clock)

\* ------------------------------------------------------------------------
\* Selection parser (conversation_flow.process_conflict_selection).
\* An utterance is a sequence of one-character strings.
\* ------------------------------------------------------------------------
Digits == {"0", "1", "2", "3", "4", "5", "6", "7", "8", "9"}
LowerLetters == {"a", "b", "c", "d", "e", "f", "g", "h", "i", "j", "k", "l", "m",
                 "n", "o", "p", "q", "r", "s", "t", "u", "v", "w", "x", "y", "z"}
UpperLetters == {"I", "N", "O", "T"}
Whitespace == {" "}

\* regex \w and \s
IsWordChar(c) == c \in LowerLetters \cup UpperLetters \cup Digits \cup {"_"}
IsSpace(c) == c \in Whitespace

\* str.lower() on one character
LowerChar(c) ==
    CASE c = "I" -> "i" [] c = "N" -> "n" [] c = "O" -> "o" [] c = "T" -> "t"
      [] OTHER -> c

Lower(text) == [i \in DOMAIN text |-> LowerChar(text[i])]

\* str.strip()
RECURSIVE StripLeft(_)
StripLeft(text) ==
    IF text # <<>> /\ IsSpace(Head(text)) THEN StripLeft(Tail(text)) ELSE text

RECURSIVE StripRight(_)
StripRight(text) ==
    IF text # <<>> /\ IsSpace(text[Len(text)])
    THEN StripRight(SubSeq(text, 1, Len(text) - 1)) ELSE text

Strip(text) == StripRight(StripLeft(text))

\* the literal w occurs in text at position i
MatchAt(text, w, i) ==
    /\ i >= 1
    /\ i + Len(w) - 1 <= Len(text)
    /\ SubSeq(text, i, i + Len(w) - 1) = w

\* re.search of a literal
Contains(text, w) == \E i \in 1..Len(text) : MatchAt(text, w, i)

\* regex \b at the gap before position i (1..Len+1)
BoundaryAt(text, i) ==
    LET before == i > 1 /\ IsWordChar(text[i - 1])
        after == i <= Len(text) /\ IsWordChar(text[i])
    IN  before # after

\* re.search of \b(?:w1|w2|..)\b
ContainsWord(text, words) ==
    \E w \in words : \E i \in 1..Len(text) :
        /\ MatchAt(text, w, i)
        /\ BoundaryAt(text, i)
        /\ BoundaryAt(text, i + Len(w))

\* the literals of the patterns, as sequences of characters
Word ==
    [ different |-> <<"d", "i", "f", "f", "e", "r", "e", "n", "t">>,
      other |-> <<"o", "t", "h", "e", "r">>,
      another |-> <<"a", "n", "o", "t", "h", "e", "r">>,
      none |-> <<"n", "o", "n", "e">>,
      neither |-> <<"n", "e", "i", "t", "h", "e", "r">>,
      no |-> <<"n", "o">>,
      cancel |-> <<"c", "a", "n", "c", "e", "l">>,
      option |-> <<"o", "p", "t", "i", "o", "n">>,
      choice |-> <<"c", "h", "o", "i", "c", "e">>,
      number |-> <<"n", "u", "m", "b", "e", "r">>,
      pick |-> <<"p", "i", "c", "k">>,
      select |-> <<"s", "e", "l", "e", "c", "t">>,
      first |-> <<"f", "i", "r", "s", "t">>,
      one |-> <<"o", "n", "e">>,
      st1 |-> <<"1", "s", "t">>,
      second |-> <<"s", "e", "c", "o", "n", "d">>,
      two |-> <<"t", "w", "o">>,
      nd2 |-> <<"2", "n", "d">>,
      third |-> <<"t", "h", "i", "r", "d">>,
      three |-> <<"t", "h", "r", "e", "e">>,
      rd3 |-> <<"3", "r", "d">> ]

\* as IsRejection, with 'no' searched as a plain substring
IsRejection_substring_no(text) ==
    \E w \in {Word.different, Word.other, Word.another, Word.none, Word.neither, Word.cancel, Word.no} :
        Contains(text, w)

\* as IsRejection, with the patterns 'different', 'other', 'another' only
IsRejection_different_only(text) ==
    \E w \in {Word.different, Word.other, Word.another} : Contains(text, w)

\* rejection_patterns: every pattern is a plain substring search except
\* r'\bno\b'
IsRejection(text) ==
    \/ \E w \in {Word.different, Word.other, Word.another, Word.none, Word.neither, Word.cancel} :
           Contains(text, w)
    \/ ContainsWord(text, {Word.no})

OptionKeywords == {Word.option, Word.choice, Word.number, Word.pick, Word.select}

DigitValue(c) ==
    CASE c = "0" -> 0 [] c = "1" -> 1 [] c = "2" -> 2 [] c = "3" -> 3
      [] c = "4" -> 4 [] c = "5" -> 5 [] c = "6" -> 6 [] c = "7" -> 7
      [] c = "8" -> 8 [] c = "9" -> 9

\* int() of the maximal run of digits that starts at position i
RECURSIVE DigitRun(_, _, _)
DigitRun(text, i, acc) ==
    IF i <= Len(text) /\ text[i] \in Digits
    THEN DigitRun(text, i + 1, acc * 10 + DigitValue(text[i]))
    ELSE acc

RECURSIVE SkipSpaces(_, _)
SkipSpaces(text, i) ==
    IF i <= Len(text) /\ IsSpace(text[i]) THEN SkipSpaces(text, i + 1) ELSE i

\* (?:option|choice|number|pick|select)\s*(\d+) matches at position i
KeywordDigitAt(text, i) ==
    \E w \in OptionKeywords :
        /\ MatchAt(text, w, i)
        /\ LET j == SkipSpaces(text, i + Len(w))
           IN  j <= Len(text) /\ text[j] \in Digits

KeywordDigitGroup(text, i) ==
    LET w == CHOOSE k \in OptionKeywords : MatchAt(text, k, i)
    IN  DigitRun(text, SkipSpaces(text, i + Len(w)), 0)

NoMatch == [matched |-> FALSE, num |-> 0]
Match(n) == [matched |-> TRUE, num |-> n]

\* re.search: the leftmost match
SearchKeywordDigit(text) ==
    IF \E i \in 1..Len(text) : KeywordDigitAt(text, i)
    THEN LET first == CHOOSE i \in 1..Len(text) :
                 /\ KeywordDigitAt(text, i)
                 /\ \A j \in 1..(i - 1) : ~KeywordDigitAt(text, j)
         IN  Match(KeywordDigitGroup(text, first))
    ELSE NoMatch

\* ^(\d+)$
SearchRawNumber(text) ==
    IF text # <<>> /\ \A i \in DOMAIN text : text[i] \in Digits
    THEN Match(DigitRun(text, 1, 0))
    ELSE NoMatch

SelIndex(k) == [kind |-> "index", k |-> k]
SelDifferent == [kind |-> "different", k |-> 0]
SelNone == [kind |-> "none", k |-> 0]

\* text_mappings, in dictionary order, without a bound on the index
WordSelection(text) ==
    IF ContainsWord(text, {Word.first, Word.one, Word.st1}) THEN SelIndex(1)
    ELSE IF ContainsWord(text, {Word.second, Word.two, Word.nd2}) THEN SelIndex(2)
    ELSE IF ContainsWord(text, {Word.third, Word.three, Word.rd3}) THEN SelIndex(3)
    ELSE SelNone

\* as process_conflict_selection, with the rejection test after the
\* selection tests
process_conflict_selection_rejection_last(user_input, num_stored) ==
    LET user_input_lower == Strip(Lower(user_input))
        m1 == SearchKeywordDigit(user_input_lower)
        m2 == SearchRawNumber(user_input_lower)
    IN  IF m1.matched /\ 1 <= m1.num /\ m1.num <= num_stored
        THEN SelIndex(m1.num)
        ELSE IF m2.matched /\ 1 <= m2.num /\ m2.num <= num_stored
        THEN SelIndex(m2.num)
        ELSE IF WordSelection(user_input_lower) # SelNone
        THEN WordSelection(user_input_lower)
        ELSE IF IsRejection(user_input_lower) THEN SelDifferent
        ELSE SelNone

process_conflict_selection(user_input, num_stored) ==
    LET user_input_lower == Strip(Lower(user_input))
        m1 == SearchKeywordDigit(user_input_lower)
        m2 == SearchRawNumber(user_input_lower)
    IN  IF IsRejection(user_input_lower) THEN SelDifferent
        ELSE IF m1.matched /\ 1 <= m1.num /\ m1.num <= num_stored
             THEN SelIndex(m1.num)
        ELSE IF m2.matched /\ 1 <= m2.num /\ m2.num <= num_stored
             THEN SelIndex(m2.num)
        ELSE WordSelection(user_input_lower)

\* ------------------------------------------------------------------------
\* Request fields as the entity extraction delivers them
\* ------------------------------------------------------------------------
\* a time string: its strptime format and the minute of the day it denotes;
\* fmt "?" is a string that no format parses, "" is the absent value
TimeStr(fmt, h, m) == [fmt |-> fmt, mins |-> h * 60 + m]
NoTime == [fmt |-> "", mins |-> 0]

\* validation.is_valid_time
is_valid_time(time_str) ==
    time_str.fmt \in {"%H:%M", "%I:%M %p", "%I:%M%p", "%I %p", "%I%p", "%H"}

\* convert_time_to_24hour: the minute of the day, or ValueError
CanConvertTime(time_str) == time_str.fmt \in {"%H:%M", "%I:%M %p", "%I:%M%p"}

convert_time_to_24hour(time_str) == time_str.mins

\* validation.is_valid_date: strptime(date_str, "%Y-%m-%d")
ValidDates == {"2024-12-15", "2024-12-16"}

is_valid_date(date_str) == date_str \in ValidDates

DateDay(date_str) == IF date_str = "2024-12-15" THEN 1 ELSE 2

\* timezone_utils.validate_timezone / pytz.timezone
KnownTimezones == {"UTC", "Europe/Paris"}

validate_timezone(timezone) == timezone \in KnownTimezones

TzOffset(timezone) == IF timezone = "UTC" THEN 0 ELSE 60

\* tz.localize(datetime.strptime(f"{date} {time_24h}", "%Y-%m-%d %H:%M"))
Localize(date_str, mins, timezone) ==
    DT(DateDay(date_str) * MinutesPerDay + mins - TzOffset(timezone),
       TzOffset(timezone))

GptData(title, date, time, timezone) ==
    [title |-> title, date |-> date, time |-> time, timezone |-> timezone]

NoMeetingData == GptData("", "", NoTime, "UTC")

\* ------------------------------------------------------------------------
\* schedule_event: the body handed to the calendar's insert
\* ------------------------------------------------------------------------
EventBody(title, start_dt, end_dt, timezone) ==
    [title |-> title, start |-> start_dt, end |-> end_dt, timezone |-> timezone]

NoEvent == EventBody("", DT(0, 0), DT(0, 0), "")

\* An entry of an attendee list: a string, given by its characters, or a
\* value of another type (None, a number, a dict).
\* as valid_attendees, every string kept
valid_attendees_any_string(attendees) ==
    SelectSeq(attendees, LAMBDA email : email.str)

\* the entries kept for the event, each as {'email': entry}:
\* "isinstance(email, str) and '@' in email"
valid_attendees(attendees) ==
    SelectSeq(attendees,
              LAMBDA email : /\ email.str
                             /\ \E i \in DOMAIN email.text : email.text[i] = "@")

\* schedule_event: the body handed to insert with its attendees, and
\* whether the insert raised
schedule_event(title, start_dt, end_dt, timezone, attendees, insertOk) ==
    [body |-> EventBody(title, start_dt, end_dt, timezone),
     attendees |-> valid_attendees(attendees),
     insert_called |-> TRUE, raised |-> ~insertOk, created |-> insertOk]

\* ------------------------------------------------------------------------
\* find_event: the event of the calendar that matches a title, a date and
\* a time best, or None
\* ------------------------------------------------------------------------
\* the 'summary' of an event as the calendar returns it, '' for an event
\* without title
Summary(ev) ==
    CASE ev.id \in {1} -> <<"N", "o", "t", "e">>
      [] ev.id \in {3, 5, 6} -> <<"n", "o", "t", "e">>
      [] ev.id \in {2, 8} -> <<"n", "i", "n", "e">>
      [] OTHER -> <<>>

\* length of the longest common subsequence
RECURSIVE LCS(_, _)
LCS(s1, s2) ==
    IF s1 = <<>> \/ s2 = <<>> THEN 0
    ELSE IF Head(s1) = Head(s2) THEN 1 + LCS(Tail(s1), Tail(s2))
    ELSE LET a == LCS(Tail(s1), s2)
             b == LCS(s1, Tail(s2))
         IN  IF a > b THEN a ELSE b

\* rapidfuzz.fuzz.ratio: the normalised Indel similarity
\* 100 * 2 * LCS / (len(s1) + len(s2)), kept as a fraction num / den
fuzz_ratio(s1, s2) ==
    [num |-> 200 * LCS(s1, s2), den |-> Len(s1) + Len(s2)]

Found(e) == [found |-> TRUE, event |-> e]
NotFound == [found |-> FALSE, event |-> Ev(0, 0, 0, "ok")]

\* as closest_event, the first event of the list taken
closest_event_first(events, target_start) ==
    events[1]

\* min(events, key=abs(start - target_start)): the first event of the list
\* with the least distance
closest_event(events, target_start) ==
    LET d(i) == IF ParseStart(events[i]).t >= target_start.t
                THEN ParseStart(events[i]).t - target_start.t
                ELSE target_start.t - ParseStart(events[i]).t
    IN  events[CHOOSE i \in DOMAIN events :
                   \A j \in DOMAIN events : d(i) < d(j) \/ (d(i) = d(j) /\ i <= j)]

\* scored_events sorted by (-score, distance to target_start), its head
BestScored(scored, query_title, target_start) ==
    LET score(i) == fuzz_ratio(query_title, Lower(Strip(Summary(scored[i]))))
        d(i) == IF ParseStart(scored[i]).t >= target_start.t
                THEN ParseStart(scored[i]).t - target_start.t
                ELSE target_start.t - ParseStart(scored[i]).t
        higher(i, j) == score(i).num * score(j).den > score(j).num * score(i).den
        same(i, j) == score(i).num * score(j).den = score(j).num * score(i).den
    IN  scored[CHOOSE i \in DOMAIN scored :
                   \A j \in DOMAIN scored :
                       \/ higher(i, j)
                       \/ same(i, j) /\ d(i) < d(j)
                       \/ same(i, j) /\ d(i) = d(j) /\ i <= j]

\* the search window and the target: 12 hours around the given time, or the
\* given day from 00:00 to 23:59 with 00:00 as the target
SearchWindow(date_str, time_str, timezone) ==
    IF time_str # NoTime
    THEN LET target_start == Localize(date_str, convert_time_to_24hour(time_str),
                                      timezone)
         IN  [target_start |-> target_start,
              window_start |-> Plus(target_start, 0 - 12 * 60),
              window_end |-> Plus(target_start, 12 * 60)]
    ELSE [target_start |-> Localize(date_str, 0, timezone),
          window_start |-> Localize(date_str, 0, timezone),
          window_end |-> Localize(date_str, 23 * 60 + 59, timezone)]

\* every exception is caught and answered with None: no date, a date, time
\* or timezone that does not parse, an event without start dateTime among
\* the events compared (KeyError), a start without offset (TypeError)
find_event(title, date_str, time_str, timezone, calendar, requestOk) ==
    IF \/ ~is_valid_date(date_str)
       \/ ~validate_timezone(timezone)
       \/ time_str # NoTime /\ ~CanConvertTime(time_str)
    THEN NotFound
    ELSE LET w == SearchWindow(date_str, time_str, timezone)
             events == fetch_existing_events(calendar, w.window_start,
                           w.window_end, requestOk)
             timed(evs) == \A i \in DOMAIN evs :
                               HasStartStr(evs[i]) /\ evs[i].kind # "naive"
             scored_events == SelectSeq(events,
                                  LAMBDA e : Strip(Summary(e)) # <<>>)
         IN  IF events = <<>> THEN NotFound
             ELSE IF Strip(title) = <<>>
             THEN IF timed(events)
                  THEN Found(closest_event(events, w.target_start))
                  ELSE NotFound
             ELSE IF scored_events = <<>> THEN NotFound
             ELSE IF timed(scored_events)
                  THEN Found(BestScored(scored_events, Lower(Strip(title)),
                                        w.target_start))
                  ELSE NotFound

\* ------------------------------------------------------------------------
\* cancel_event and reschedule_event, called with a date (without one they
\* search through find_event_flexible)
\* ------------------------------------------------------------------------
\* the fields of an event that fetch_existing_events asks the calendar for:
\* fields="items(summary,start(dateTime),end(dateTime))"
ItemFields == {"summary", "start", "end"}

\* ev.get('id') or ev.get('eventId') of a fetched event; 0 stands for None
EventIdOf(ev) ==
    IF {"id", "eventId"} \cap ItemFields # {} THEN ev.id ELSE 0

\* the answer of cancel_event or reschedule_event with the request it made
\* to the calendar ("none", "delete" or "patch") and the id it passed
Answer(status, message, request, event_id) ==
    [status |-> status, message |-> message, request |-> request,
     event_id |-> event_id]

cancel_event(title, date, time, timezone, calendar, requestOk, deleteOk) ==
    LET ev == find_event(title, date, time, timezone, calendar, requestOk)
        ev_id == EventIdOf(ev.event)
    IN  IF ~ev.found
        THEN Answer("not_found", "Could not find a matching event to cancel.",
                    "none", 0)
        ELSE IF ev_id = 0
        THEN Answer("error", "Event found but missing id.", "none", 0)
        ELSE IF ~deleteOk
        THEN Answer("error", "Failed to cancel the event.", "delete", ev_id)
        ELSE Answer("cancelled", "", "delete", ev_id)

reschedule_event(title, date, time, timezone, new_date, new_time, calendar, requestOk, patchOk) ==
    LET ev == find_event(title, date, time, timezone, calendar, requestOk)
        ev_id == EventIdOf(ev.event)
    IN  IF ~ev.found
        THEN Answer("not_found", "Could not find a matching event to reschedule.",
                    "none", 0)
        ELSE IF ev_id = 0
        THEN Answer("error", "Event found but missing id.", "none", 0)
        ELSE IF ~CanConvertTime(new_time) \/ ~is_valid_date(new_date)
        THEN Answer("error", "Invalid new date/time", "none", 0)
        ELSE IF ~patchOk
        THEN Answer("error", "patch failed", "patch", ev_id)
        ELSE Answer("rescheduled", "", "patch", ev_id)

\* ------------------------------------------------------------------------
\* Results of the two scheduling handlers.  status "raised" stands for an
\* exception that leaves the handler.
\* ------------------------------------------------------------------------
NoResult ==
    [status |-> "", missing |-> <<>>, message |-> "",
     original_request |-> [start |-> 0, end |-> 0],
     suggestions |-> <<>>, event |-> NoEvent, selected_option |-> 0,
     existing |-> <<>>, slots |-> <<>>, listed |-> FALSE,
     insert_called |-> FALSE, created |-> FALSE]

\* formatted_suggestions: option numbers from 1, start and end as strftime
RECURSIVE FormatSuggestions(_, _)
FormatSuggestions(suggestions, i) ==
    IF i > Len(suggestions) THEN <<>>
    ELSE <<[option |-> i,
            start |-> strftime(suggestions[i].start),
            end |-> strftime(suggestions[i].end),
            strategy |-> suggestions[i].strategy]>>
         \o FormatSuggestions(suggestions, i + 1)

\* as MissingFields, the timezone not validated
MissingFields_without_timezone(gpt_data) ==
    (IF gpt_data.title = "" THEN <<"title">> ELSE <<>>)
    \o (IF gpt_data.date = "" \/ ~is_valid_date(gpt_data.date)
        THEN <<"date">> ELSE <<>>)
    \o (IF gpt_data.time = NoTime \/ ~is_valid_time(gpt_data.time)
        THEN <<"time">> ELSE <<>>)

MissingFields(gpt_data) ==
    (IF gpt_data.title = "" THEN <<"title">> ELSE <<>>)
    \o (IF gpt_data.date = "" \/ ~is_valid_date(gpt_data.date)
        THEN <<"date">> ELSE <<>>)
    \o (IF gpt_data.time = NoTime \/ ~is_valid_time(gpt_data.time)
        THEN <<"time">> ELSE <<>>)
    \o (IF ~validate_timezone(gpt_data.timezone) THEN <<"timezone">> ELSE <<>>)

\* the handler's answer to a conflict: the alternatives, or the exception
\* that suggest_multiple_slots raised
ConflictResult(base, start_dt, end_dt, suggestions) ==
    IF suggestions.err # ""
    THEN [base EXCEPT !.status = "raised", !.message = suggestions.err]
    ELSE [base EXCEPT
            !.status = "conflict",
            !.message = "The requested time slot conflicts with existing meetings",
            !.original_request = [start |-> strftime(start_dt),
                                  end |-> strftime(end_dt)],
            !.suggestions = FormatSuggestions(suggestions.val, 1),
            !.slots = suggestions.val]

\* the handler from the conflict check on
CheckAndSchedule(gpt_data, start_dt, end_dt, existing_events, cal, clk, nextOk, createOk) ==
    LET conflict == has_conflict_with_buffer(existing_events, start_dt, end_dt)
        base == [NoResult EXCEPT !.existing = existing_events, !.listed = TRUE]
    IN  IF conflict = "True"
        THEN ConflictResult(base, start_dt, end_dt,
                 suggest_multiple_slots(existing_events, start_dt,
                     DEFAULT_MEETING_DURATION, 3, cal, nextOk, clk))
        ELSE IF conflict # "False"
        THEN [base EXCEPT !.status = "raised", !.message = conflict]
        ELSE IF ~createOk
        THEN [base EXCEPT !.status = "raised", !.message = "insert failed",
                          !.insert_called = TRUE]
        ELSE [base EXCEPT
                !.status = "scheduled",
                !.insert_called = TRUE,
                !.created = TRUE,
                !.event = EventBody(gpt_data.title, start_dt, end_dt,
                                    gpt_data.timezone)]

intelligent_schedule_handler(gpt_data, cal, clk, listOk, nextOk, createOk) ==
    IF MissingFields(gpt_data) # <<>>
    THEN [NoResult EXCEPT !.status = "missing_info",
                          !.missing = MissingFields(gpt_data),
                          !.message = "Missing or invalid fields"]
    ELSE IF ~CanConvertTime(gpt_data.time)
    THEN [NoResult EXCEPT !.status = "error",
                          !.message = "Invalid date/time format"]
    ELSE
    LET start_dt == Localize(gpt_data.date, convert_time_to_24hour(gpt_data.time),
                             gpt_data.timezone)
        end_dt == Plus(start_dt, DEFAULT_MEETING_DURATION)
        check_start == Plus(start_dt, -BUFFER_MINUTES)
        check_end == Plus(end_dt, BUFFER_MINUTES)
    IN  CheckAndSchedule(gpt_data, start_dt, end_dt,
            fetch_existing_events(cal, check_start, check_end, listOk),
            cal, clk, nextOk, createOk)

\* the result that carries the chosen slot as the event to create
Chosen(original_meeting_data, selected_option, existing_events, suggestions) ==
    [NoResult EXCEPT
        !.existing = existing_events, !.listed = TRUE, !.slots = suggestions,
        !.selected_option = selected_option,
        !.event = EventBody(original_meeting_data.title,
                      suggestions[selected_option].start,
                      suggestions[selected_option].end,
                      original_meeting_data.timezone)]

\* as BookChosen, without the conflict check before booking
BookChosen_unchecked(chosen, createOk) ==
    IF ~createOk
    THEN [chosen EXCEPT !.status = "error", !.insert_called = TRUE,
             !.message = "Failed to schedule the meeting"]
    ELSE [chosen EXCEPT !.status = "scheduled", !.insert_called = TRUE,
                        !.created = TRUE]

\* "Double-check that the selected slot is still available", then
\* schedule_event
BookChosen(chosen, createOk) ==
    LET conflict == has_conflict_with_buffer(chosen.existing, chosen.event.start,
                        chosen.event.end)
    IN  IF conflict = "True"
        THEN [chosen EXCEPT !.status = "error",
                 !.message = "The selected time slot is no longer available"]
        ELSE IF conflict # "False"
        THEN [chosen EXCEPT !.status = "error",
                 !.message = "Failed to schedule the meeting"]
        ELSE IF ~createOk
        THEN [chosen EXCEPT !.status = "error", !.insert_called = TRUE,
                 !.message = "Failed to schedule the meeting"]
        ELSE [chosen EXCEPT !.status = "scheduled", !.insert_called = TRUE,
                            !.created = TRUE]

\* as SelectAndBook, an option beyond the last taken for the last
SelectAndBook_clamped(original_meeting_data, selected_option, existing_events, suggestions, createOk) ==
    IF suggestions.err # "" \/ suggestions.val = <<>>
    THEN [NoResult EXCEPT !.existing = existing_events, !.listed = TRUE,
                          !.status = "error",
                          !.message = "Failed to schedule the meeting"]
    ELSE BookChosen(Chosen(original_meeting_data,
                           IF selected_option < 1 THEN 1
                           ELSE IF selected_option > Len(suggestions.val)
                           THEN Len(suggestions.val) ELSE selected_option,
                           existing_events, suggestions.val),
                    createOk)

\* the handler from the regenerated suggestions on
SelectAndBook(original_meeting_data, selected_option, existing_events, suggestions, createOk) ==
    IF suggestions.err # ""
    THEN [NoResult EXCEPT !.existing = existing_events, !.listed = TRUE,
                          !.status = "error",
                          !.message = "Failed to schedule the meeting"]
    ELSE IF selected_option < 1 \/ selected_option > Len(suggestions.val)
    THEN [NoResult EXCEPT !.existing = existing_events, !.listed = TRUE,
                          !.slots = suggestions.val,
                          !.status = "error", !.message = "Invalid option selected"]
    ELSE BookChosen(Chosen(original_meeting_data, selected_option, existing_events,
                           suggestions.val),
                    createOk)

\* the handler from the fetch of the existing events on
RegenerateAndBook(original_meeting_data, selected_option, original_start_dt, existing_events, cal, clk, nextOk, createOk) ==
    SelectAndBook(original_meeting_data, selected_option, existing_events,
        suggest_multiple_slots(existing_events, original_start_dt,
            DEFAULT_MEETING_DURATION, 3, cal, nextOk, clk),
        createOk)

schedule_suggested_slot(original_meeting_data, selected_option, cal, clk, listOk, nextOk, createOk) ==
    IF original_meeting_data.title = "" \/ original_meeting_data.date = ""
       \/ original_meeting_data.time = NoTime
    THEN [NoResult EXCEPT !.status = "error",
                          !.message = "Missing required meeting information"]
    ELSE IF ~CanConvertTime(original_meeting_data.time)
            \/ ~validate_timezone(original_meeting_data.timezone)
            \/ ~is_valid_date(original_meeting_data.date)
    THEN [NoResult EXCEPT !.status = "error",
                          !.message = "Failed to schedule the meeting"]
    ELSE
    LET original_start_dt == Localize(original_meeting_data.date,
                                 convert_time_to_24hour(original_meeting_data.time),
                                 original_meeting_data.timezone)
        check_start == Plus(original_start_dt, -(12 * 60))
        check_end == Plus(original_start_dt, 2 * MinutesPerDay)
    IN  RegenerateAndBook(original_meeting_data, selected_option, original_start_dt,
            fetch_existing_events(cal, check_start, check_end, listOk),
            cal, clk, nextOk, createOk)

\* ------------------------------------------------------------------------
\* Inputs of the model
\* ------------------------------------------------------------------------
\* events that may be on the calendar; day 1 is 2024-12-15
CandidateEvents ==
    { Ev(1, At(1, 14, 0), At(1, 15, 0), "ok"),
      Ev(2, At(1, 15, 30), At(1, 16, 30), "ok"),
      Ev(3, At(1, 10, 0), At(1, 11, 0), "ok"),
      Ev(4, At(1, 14, 30), At(2, 13, 45), "ok"),
      Ev(5, At(2, 14, 0), At(2, 15, 0), "ok"),
      Ev(6, At(1, 0, 0), At(2, 0, 0), "nostart"),
      Ev(7, At(1, 13, 0), At(1, 13, 30), "naive"),
      Ev(8, At(1, 16, 0), At(1, 17, 0), "noend") }

Calendars == {S \in SUBSET CandidateEvents : Cardinality(S) <= MaxEvents}

Clocks == {At(0, 12, 0), At(1, 12, 0)}

\* the meeting requests of the dialog: 10:00 and 14:00 UTC, 3:00 PM in Paris
\* (14:00 UTC) and "5 PM", which convert_time_to_24hour does not parse
Requests ==
    { GptData("Standup", "2024-12-15", TimeStr("%H:%M", 10, 0), "UTC"),
      GptData("Standup", "2024-12-15", TimeStr("%H:%M", 14, 0), "UTC"),
      GptData("Standup", "2024-12-15", TimeStr("%I:%M %p", 15, 0), "Europe/Paris"),
      GptData("Standup", "2024-12-15", TimeStr("%I %p", 17, 0), "UTC") }

\* what a turn of the dialog may bring: a request, or a part of one
TurnRequests ==
    Requests
    \cup { GptData("", "2024-12-15", TimeStr("%H:%M", 14, 0), "UTC"),
           GptData("Standup", "", NoTime, "UTC") }

\* candidate intervals for a direct conflict check (start, end in UTC)
Intervals ==
    { <<At(1, 14, 50), At(1, 15, 50)>>, <<At(1, 15, 20), At(1, 16, 20)>>,
      <<At(1, 15, 15), At(1, 16, 15)>>, <<At(1, 12, 45), At(1, 13, 45)>>,
      <<At(1, 12, 0), At(1, 13, 0)>>, <<At(1, 14, 0), At(1, 15, 0)>>,
      <<At(1, 15, 10), At(1, 16, 10)>> }

DesiredStarts ==
    { DT(At(1, 14, 0), 0), DT(At(1, 10, 0), 0), DT(At(1, 14, 0), 60),
      DT(At(1, 8, 0), 0), DT(At(1, 9, 30), 0), DT(At(0, 14, 0), 0) }

\* ------------------------------------------------------------------------
\* State
\* ------------------------------------------------------------------------
VARIABLES
    calendar,   \* the events of the primary calendar
    clock,      \* datetime.now(), an instant
    session,    \* the session dictionary of the connection
    created,    \* the bodies inserted by schedule_event, in order
    changes,    \* number of changes of the calendar made by somebody else
    last,       \* the last operation with its arguments and result
    ws          \* the websocket connections and the registries of main.py

vars == <<calendar, clock, session, created, changes, last, ws>>

NoConflictData == [suggestions |-> <<>>, original_request |-> [start |-> 0, end |-> 0]]

\* ------------------------------------------------------------------------
\* Dictionaries of meeting details (conversation_flow.py).  The value of a
\* field is a record: key is the name the dictionary holds it under ("" when
\* it holds none), list tells a list from a single value, items are the
\* elements.  The empty string and NoTime stand for None.  A dictionary
\* holds a field under one name only.
\* ------------------------------------------------------------------------
Absent == [key |-> "", list |-> FALSE, items |-> <<>>]

Single(key, value) == [key |-> key, list |-> FALSE, items |-> <<value>>]

Listed(key, values) == [key |-> key, list |-> TRUE, items |-> values]

Details(title, date, time) == [title |-> title, date |-> date, time |-> time]

\* the empty dictionary
NoDetails == Details(Absent, Absent, Absent)

NewSession ==
    [awaiting_conflict_resolution |-> FALSE,
     has_conflict_data |-> FALSE,
     conflict_data |-> NoConflictData,
     original_meeting_data |-> NoMeetingData,
     has_partial_meeting_details |-> FALSE,
     partial_meeting_details |-> NoDetails]

NoCall == [op |-> "none"]

\* as handle_conflict_resolution, without the awaiting flag
handle_conflict_resolution_no_flag(sess, conflict_data, original_meeting_data) ==
    [sess EXCEPT !.conflict_data = conflict_data,
                 !.has_conflict_data = TRUE,
                 !.original_meeting_data = original_meeting_data]

\* handle_conflict_resolution: the conflict data, the awaiting flag and the
\* original meeting details are stored in the session
handle_conflict_resolution(sess, conflict_data, original_meeting_data) ==
    [sess EXCEPT !.conflict_data = conflict_data,
                 !.has_conflict_data = TRUE,
                 !.awaiting_conflict_resolution = TRUE,
                 !.original_meeting_data = original_meeting_data]

\* ------------------------------------------------------------------------
\* conversation_flow.fill_missing_fields_async
\* ------------------------------------------------------------------------
\* a key 'dates' or 'times' becomes 'date' or 'time', and a non-empty list
\* becomes its first element
NormalizedValue(field, value) ==
    IF value.key = "" THEN Absent
    ELSE IF value.list /\ value.items # <<>> THEN Single(field, value.items[1])
    ELSE [value EXCEPT !.key = field]

normalized_entities(entities) ==
    Details(entities.title, NormalizedValue("date", entities.date),
            NormalizedValue("time", entities.time))

\* session.get('partial_meeting_details', {})
partial_details(sess) ==
    IF sess.has_partial_meeting_details THEN sess.partial_meeting_details
    ELSE NoDetails

\* as combined_details, the stored value winning over the turn's
combined_details_stored_first(stored, normalized) ==
    [field \in {"title", "date", "time"} |->
        IF stored[field].key # "" THEN stored[field] ELSE normalized[field]]

\* {**partial_details, **normalized_entities}
combined_details(stored, normalized) ==
    [field \in {"title", "date", "time"} |->
        IF normalized[field].key # "" THEN normalized[field] ELSE stored[field]]

\* what the call leaves: the session, the returned dictionary (returned is
\* FALSE for None) and the fields a clarification was requested for.  The
\* function stores nothing and requests nothing: it removes the stored
\* details and returns the combined ones.
fill_missing_fields_async(entities, sess) ==
    [session |-> [sess EXCEPT !.has_partial_meeting_details = FALSE,
                              !.partial_meeting_details = NoDetails],
     returned |-> TRUE,
     details |-> combined_details(partial_details(sess),
                                  normalized_entities(entities)),
     clarifications |-> <<>>]

\* ------------------------------------------------------------------------
\* main.process_meeting_scheduling
\* ------------------------------------------------------------------------
\* main.fill_missing_fields_async: the import of fill_missing_fields from
\* conversation_flow fails, the exception is caught and the entities are
\* returned as they came
fill_missing_fields_wrapper(entities) == entities

\* the answer sent for the handler's result
Reply(result) ==
    IF result.status = "raised"
    THEN [type |-> "error", text |-> "Sorry, scheduling failed",
          status |-> "error"]
    ELSE IF result.status = "success"
    THEN [type |-> "meeting_result",
          text |-> "Perfect! I've successfully scheduled your meeting",
          status |-> result.status]
    ELSE [type |-> "meeting_result", text |-> "I couldn't schedule the meeting",
          status |-> result.status]

\* the event a created body becomes on the calendar
Inserted(cal, body, n) ==
    cal \cup {Ev(100 + n, body.start.t, body.end.t, "ok")}

\* ------------------------------------------------------------------------
\* The websocket connections (main.py).  ws.at tells where the endpoint's
\* coroutine of a connection stands: "closed", "receive" (awaiting the next
\* message), "audio" or "stop" (inside handle_audio_data_smart or
\* handle_control_message_new, awaiting process_complete_audio).  ws.turns
\* counts the calls of process_complete_audio that have begun and not
\* ended.  ws.client tells whether the client's end of the socket is open.
\* ------------------------------------------------------------------------
Sessions == {1, 2}

Put(map, key, value) ==
    [k \in DOMAIN map \cup {key} |-> IF k = key THEN value ELSE map[k]]

Pop(map, key) == [k \in DOMAIN map \ {key} |-> map[k]]

NoConnections ==
    [active_sessions |-> <<>>, audio_processors |-> <<>>,
     processing_status |-> <<>>,
     inbox |-> [id \in Sessions |-> <<>>],
     at |-> [id \in Sessions |-> "closed"],
     turns |-> [id \in Sessions |-> 0],
     client |-> [id \in Sessions |-> FALSE]]

\* ------------------------------------------------------------------------
\* Utterances
\* ------------------------------------------------------------------------
RECURSIVE Join(_)
Join(words) ==
    IF words = <<>> THEN <<>>
    ELSE IF Len(words) = 1 THEN words[1]
    ELSE words[1] \o <<" ">> \o Join(Tail(words))

Vocabulary ==
    { <<"n", "o">>,
      <<"k", "n", "o", "w">>,
      <<"n", "u", "m", "b", "e", "r">>,
      <<"n", "o", "n", "e">>,
      <<"o", "p", "t", "i", "o", "n">>,
      <<"c", "a", "n", "c", "e", "l">>,
      <<"o", "n", "e">>,
      <<"s", "e", "c", "o", "n", "d">>,
      <<"t", "h", "i", "r", "d">>,
      <<"t", "h", "e">>,
      <<"1">>,
      <<"2">>,
      <<"9">>,
      <<"N", "o">> }

WordLists == UNION {[1..n -> Vocabulary] : n \in 1..MaxWords}

\* example utterances
Say ==
    [ option1 |-> Join(<<<<"o", "p", "t", "i", "o", "n">>, <<"1">>>>),
      option2 |-> Join(<<<<"o", "p", "t", "i", "o", "n">>, <<"2">>>>),
      option3 |-> Join(<<<<"o", "p", "t", "i", "o", "n">>, <<"3">>>>),
      option9 |-> Join(<<<<"o", "p", "t", "i", "o", "n">>, <<"9">>>>),
      no |-> Join(<<<<"n", "o">>>>),
      the_third |-> Join(<<<<"t", "h", "e">>, <<"t", "h", "i", "r", "d">>>>),
      the_third_one |-> Join(<<<<"t", "h", "e">>, <<"t", "h", "i", "r", "d">>, <<"o", "n", "e">>>>),
      the_second_one |-> Join(<<<<"t", "h", "e">>, <<"s", "e", "c", "o", "n", "d">>, <<"o", "n", "e">>>>),
      number2 |-> Join(<<<<"n", "u", "m", "b", "e", "r">>, <<"2">>>>),
      i_know_option1 |-> Join(<<<<"I">>, <<"k", "n", "o", "w", ",">>, <<"o", "p", "t", "i", "o", "n">>, <<"1">>>>),
      none_cancel_option1 |-> Join(<<<<"n", "o", "n", "e">>, <<"o", "f">>, <<"t", "h", "e", "s", "e", ",">>, <<"c", "a", "n", "c", "e", "l">>, <<"o", "p", "t", "i", "o", "n">>, <<"1">>>>),
      actually_none |-> Join(<<<<"a", "c", "t", "u", "a", "l", "l", "y">>, <<"n", "o", "n", "e">>, <<"o", "f">>, <<"t", "h", "e", "s", "e", ",">>, <<"c", "a", "n", "c", "e", "l">>>>),
      first |-> Join(<<<<"f", "i", "r", "s", "t">>>>),
      nd2 |-> Join(<<<<"2", "n", "d">>>>),
      three |-> Join(<<<<"t", "h", "r", "e", "e">>>>),
      pick2 |-> Join(<<<<"p", "i", "c", "k", "2">>>>),
      padded3 |-> Join(<<<<" ">>, <<"3">>, <<" ">>>>),
      hmm |-> Join(<<<<"h", "m", "m">>>>) ]

Examples == {Say[k] : k \in DOMAIN Say}

Utterances == {Join(wl) : wl \in WordLists} \cup Examples

\* what the user may say when the options were presented
SelectionUtterances ==
    {Say.option1, Say.option2, Say.option3, Say.no, Say.actually_none, Say.hmm}

\* ------------------------------------------------------------------------
\* Direct calls of the calendar functions (as the unit tests make them):
\* the existing events are any events of the calendar, in start order
\* ------------------------------------------------------------------------
InitCalendar ==
    /\ calendar \in Calendars
    /\ clock \in Clocks
    /\ session = NewSession
    /\ created = <<>>
    /\ changes = 0
    /\ last = NoCall
    /\ ws = NoConnections

CallHasConflict ==
    /\ last = NoCall
    /\ \E S \in SUBSET calendar, iv \in Intervals, off \in {0, 60} :
        LET existing == OrderByStartTime(S)
            new_start == DT(iv[1], off)
            new_end == DT(iv[2], off)
        IN  /\ last' = [op |-> "has_conflict", existing |-> existing,
                        new_start |-> new_start, new_end |-> new_end,
                        ret |-> has_conflict_with_buffer(existing, new_start, new_end)]
            /\ UNCHANGED <<ws, calendar, clock, session, created, changes>>

CallSuggestMultiple ==
    /\ last = NoCall
    /\ \E S \in SUBSET calendar, desired_start \in DesiredStarts,
       n \in 0..MaxN, requestOk \in BOOLEAN :
        LET existing == OrderByStartTime(S)
            next_day_slot == Plus(desired_start, MinutesPerDay)
        IN  /\ last' = [op |-> "suggest", existing |-> existing,
                        desired_start |-> desired_start, num_suggestions |-> n,
                        next_day_events |->
                            fetch_existing_events(calendar, next_day_slot,
                                Plus(next_day_slot, NextDayWindowHours * 60),
                                requestOk),
                        ret |-> suggest_multiple_slots(existing, desired_start,
                                    DEFAULT_MEETING_DURATION, n, calendar,
                                    requestOk, clock)]
            /\ UNCHANGED <<ws, calendar, clock, session, created, changes>>

\* the existing events are events of the calendar, or the single event
\* 14:00-15:30
CallSuggestNext ==
    /\ last = NoCall
    /\ \E existing \in {OrderByStartTime(S) : S \in SUBSET calendar}
                         \cup {<<Ev(9, At(1, 14, 0), At(1, 15, 30), "ok")>>},
          desired_start \in DesiredStarts,
          duration_minutes \in {30, DEFAULT_MEETING_DURATION} :
        /\ last' = [op |-> "next_slot", existing |-> existing,
                    desired_start |-> desired_start,
                    duration_minutes |-> duration_minutes,
                    ret |-> suggest_next_slot(existing, desired_start,
                                              duration_minutes)]
        /\ UNCHANGED <<ws, calendar, clock, session, created, changes>>

\* schedule_suggested_slot called with any meeting data and option
\* number; requestOk is the outcome of its list requests
CallScheduleSuggested ==
    /\ last = NoCall
    /\ \E original_meeting_data \in TurnRequests, selected_option \in 0..MaxN,
          requestOk, createOk \in BOOLEAN :
        /\ last' = [op |-> "schedule_slot",
                    original_meeting_data |-> original_meeting_data,
                    selected_option |-> selected_option,
                    ret |-> schedule_suggested_slot(original_meeting_data,
                                selected_option, calendar, clock, requestOk,
                                requestOk, createOk)]
        /\ UNCHANGED <<ws, calendar, clock, session, created, changes>>

\* what an attendee list may hold: two addresses, a bare name and a value
\* that is no string
AttendeeEntries ==
    { [str |-> TRUE, text |-> <<"a", "@", "x">>],
      [str |-> TRUE, text |-> <<"b", "@", "x">>],
      [str |-> TRUE, text |-> <<"b", "o", "b">>],
      [str |-> FALSE, text |-> <<>>] }

\* schedule_event called with a list of at most MaxAttendees entries
CallScheduleEvent ==
    /\ last = NoCall
    /\ \E attendees \in UNION {[1..n -> AttendeeEntries] : n \in 0..MaxAttendees},
          insertOk \in BOOLEAN :
        /\ last' = [op |-> "schedule_event", attendees |-> attendees,
                    insertOk |-> insertOk,
                    ret |-> schedule_event("Standup", DT(At(1, 14, 0), 0),
                                DT(At(1, 15, 0), 0), "UTC", attendees, insertOk)]
        /\ UNCHANGED <<ws, calendar, clock, session, created, changes>>

\* intelligent_schedule_handler called with any request: the title given
\* or empty, the date given, empty or not in the form %Y-%m-%d, the time in
\* a format the handler converts, in one it only validates, in none, or
\* empty, the timezone known or not
CallHandler ==
    /\ last = NoCall
    /\ \E title \in {"Standup", ""}, date \in {"2024-12-15", "", "15/12/2024"},
          time \in {TimeStr("%H:%M", 14, 0), TimeStr("%I %p", 17, 0),
                    TimeStr("%H.%M", 14, 0), NoTime},
          timezone \in {"UTC", "Mars/Phobos"}, requestOk, createOk \in BOOLEAN :
        /\ last' = [op |-> "handler",
                    gpt_data |-> GptData(title, date, time, timezone),
                    ret |-> intelligent_schedule_handler(
                                GptData(title, date, time, timezone), calendar,
                                clock, requestOk, requestOk, createOk)]
        /\ UNCHANGED <<ws, calendar, clock, session, created, changes>>

\* find_event called with a title (none, blank, 'note' or 'none'), a date
\* or none, a time in a format that converts, in one that does not, or
\* none, and a timezone
Titles ==
    { <<>>, <<" ">>, <<"N", "o", "t", "e">>, <<"n", "o", "n", "e">> }

CallFindEvent ==
    /\ last = NoCall
    /\ \E title \in Titles, date_str \in {"2024-12-15", ""},
          time_str \in {TimeStr("%H:%M", 14, 0), TimeStr("%I:%M %p", 11, 0),
                        TimeStr("%I %p", 17, 0), NoTime},
          timezone \in KnownTimezones, requestOk \in BOOLEAN :
        /\ last' = [op |-> "find_event", title |-> title, date_str |-> date_str,
                    time_str |-> time_str, timezone |-> timezone,
                    requestOk |-> requestOk,
                    ret |-> find_event(title, date_str, time_str, timezone,
                                       calendar, requestOk)]
        /\ UNCHANGED <<ws, calendar, clock, session, created, changes>>

\* cancel_event called for the given day, with or without a title and a
\* time; deleteOk is the outcome of the delete request
CallCancelEvent ==
    /\ last = NoCall
    /\ \E title \in {<<>>, <<"N", "o", "t", "e">>},
          time \in {TimeStr("%H:%M", 14, 0), NoTime},
          requestOk, deleteOk \in BOOLEAN :
        /\ last' = [op |-> "cancel", title |-> title, time |-> time,
                    deleteOk |-> deleteOk,
                    ev |-> find_event(title, "2024-12-15", time, "UTC",
                                      calendar, requestOk),
                    ret |-> cancel_event(title, "2024-12-15", time, "UTC",
                                calendar, requestOk, deleteOk)]
        /\ UNCHANGED <<ws, calendar, clock, session, created, changes>>

\* reschedule_event called for the given day, the new time in a format
\* that converts or in one that does not; patchOk is the outcome of the
\* patch request
CallRescheduleEvent ==
    /\ last = NoCall
    /\ \E title \in {<<>>, <<"N", "o", "t", "e">>},
          new_time \in {TimeStr("%H:%M", 10, 0), TimeStr("%I %p", 17, 0)},
          requestOk, patchOk \in BOOLEAN :
        /\ last' = [op |-> "reschedule", title |-> title, new_time |-> new_time,
                    patchOk |-> patchOk,
                    ev |-> find_event(title, "2024-12-15",
                                      TimeStr("%H:%M", 14, 0), "UTC", calendar,
                                      requestOk),
                    ret |-> reschedule_event(title, "2024-12-15",
                                TimeStr("%H:%M", 14, 0), "UTC", "2024-12-16",
                                new_time, calendar, requestOk, patchOk)]
        /\ UNCHANGED <<ws, calendar, clock, session, created, changes>>

NextFn ==
    \/ CallHasConflict \/ CallSuggestMultiple \/ CallSuggestNext
    \/ CallScheduleSuggested \/ CallHandler \/ CallScheduleEvent
    \/ CallFindEvent \/ CallCancelEvent \/ CallRescheduleEvent

SpecFn == InitCalendar /\ [][NextFn]_vars

\* ------------------------------------------------------------------------
\* Direct calls of the selection parser
\* ------------------------------------------------------------------------
StoredSuggestion(i) == [option |-> i, start |-> 0, end |-> 0, strategy |-> ""]

InitParse ==
    /\ calendar = {}
    /\ clock = At(0, 12, 0)
    /\ \E n \in 0..3 :
           session = IF n = 0 THEN NewSession
                     ELSE [NewSession EXCEPT
                             !.has_conflict_data = TRUE,
                             !.awaiting_conflict_resolution = TRUE,
                             !.conflict_data.suggestions =
                                 [i \in 1..n |-> StoredSuggestion(i)]]
    /\ created = <<>>
    /\ changes = 0
    /\ last = NoCall
    /\ ws = NoConnections

\* session.get('conflict_data', {}).get('suggestions', [])
StoredSuggestions(sess) ==
    IF sess.has_conflict_data THEN sess.conflict_data.suggestions ELSE <<>>

CallParse ==
    /\ last = NoCall
    /\ \E text \in Utterances :
        /\ last' = [op |-> "parse", text |-> text,
                    stored |-> Len(StoredSuggestions(session)),
                    ret |-> process_conflict_selection(text,
                                Len(StoredSuggestions(session)))]
        /\ UNCHANGED <<ws, calendar, clock, session, created, changes>>

NextParse == CallParse

SpecParse == InitParse /\ [][NextParse]_vars

\* ------------------------------------------------------------------------
\* Direct calls of fill_missing_fields_async, one for each turn: the session
\* starts with any stored details, each call gets the entities of a turn
\* ------------------------------------------------------------------------
\* details a session may hold from earlier turns
StoredDetails ==
    { Details(title, date, time) :
        title \in {Absent, Single("title", "Standup")},
        date \in {Absent, Single("date", "2024-12-15"), Single("date", "tomorrow")},
        time \in {Absent, Single("time", TimeStr("%H:%M", 14, 0))} }

\* the entities a turn may bring
TurnEntities ==
    { Details(title, date, time) :
        title \in {Absent, Single("title", "Standup"), Single("title", "Review"),
                   Single("title", "")},
        date \in {Absent, Single("date", "2024-12-15"), Single("date", "2024-12-16"),
                  Single("date", "tomorrow"),
                  Listed("dates", <<"2024-12-16", "2024-12-15">>),
                  Listed("dates", <<>>)},
        time \in {Absent, Single("time", TimeStr("%H:%M", 14, 0)),
                  Single("time", TimeStr("%I %p", 17, 0)),
                  Listed("times", <<TimeStr("%H:%M", 10, 0),
                                    TimeStr("%H:%M", 14, 0)>>)} }

InitFill ==
    /\ calendar = {}
    /\ clock = At(0, 12, 0)
    /\ \/ session = NewSession
       \/ \E stored \in StoredDetails :
              session = [NewSession EXCEPT
                           !.has_partial_meeting_details = TRUE,
                           !.partial_meeting_details = stored]
    /\ created = <<>>
    /\ changes = 0
    /\ last = NoCall
    /\ ws = NoConnections

\* a turn: known_before are the details known when the turn before ended
CallFill ==
    \E entities \in TurnEntities :
        \E ret \in {fill_missing_fields_async(entities, session)} :
            /\ last' = [op |-> "fill", entities |-> entities,
                        had_stored |-> session.has_partial_meeting_details,
                        stored |-> partial_details(session),
                        known_before |-> IF last.op = "fill"
                                         THEN last.ret.details
                                         ELSE partial_details(session),
                        ret |-> ret]
            /\ session' = ret.session
            /\ UNCHANGED <<ws, calendar, clock, created, changes>>

NextFill == CallFill

SpecFill == InitFill /\ [][NextFill]_vars

\* ------------------------------------------------------------------------
\* Properties of the selection parser (specification SpecParse)
\* ------------------------------------------------------------------------
Parsed == last.op = "parse"

\* the utterance as the parser reads it
Heard == Strip(Lower(last.text))

SaysWord(w) == ContainsWord(Heard, {w})
SaysDigit == \E i \in DOMAIN Heard : Heard[i] \in Digits

\* C5: the parser returns an integer k only if 1 <= k <= the number of
\* stored suggestions, and 'option 9' with 3 stored suggestions yields None.
C5_IndexWithinStored ==
    Parsed =>
        /\ last.ret.kind = "index" => 1 <= last.ret.k /\ last.ret.k <= last.stored
        /\ last.text = Say.option9 /\ last.stored = 3 => last.ret = SelNone

\* C6: without rejection keyword and digit, an ordinal word yields its
\* index; 'the third one' yields 3 and 'the second one' yields 2 with 3
\* suggestions stored.
C6_OrdinalWordIndex ==
    Parsed /\ last.stored = 3 /\ ~IsRejection(Heard) /\ ~SaysDigit =>
        /\ last.text = Say.the_third_one => last.ret = SelIndex(3)
        /\ last.text = Say.the_second_one => last.ret = SelIndex(2)
        /\ last.text = Say.first => last.ret = SelIndex(1)
        /\ last.text = Say.three => last.ret = SelIndex(3)

\* the rejection keywords the claim names
NamesRejection ==
    \/ \E w \in {Word.different, Word.other, Word.none, Word.cancel} : Contains(Heard, w)
    \/ SaysWord(Word.no)

\* C7: an utterance that contains a rejection keyword yields 'different',
\* also when it contains an in-bounds option digit or an ordinal word.
C7_RejectionFirst ==
    Parsed /\ NamesRejection => last.ret = SelDifferent

C7_Witness ==
    /\ Parsed
    /\ last.text = Say.none_cancel_option1
    /\ last.stored = 3
    /\ last.ret = SelDifferent

\* 'no' occurs in the utterance, but only inside longer words, and no other
\* rejection pattern occurs
NoOnlyInsideWords ==
    /\ Contains(Heard, Word.no)
    /\ ~SaysWord(Word.no)
    /\ \A w \in {Word.different, Word.other, Word.another, Word.none, Word.neither, Word.cancel} :
           ~Contains(Heard, w)

\* C8: the bare 'no' is a rejection; 'no' inside a longer word is not, and
\* an in-bounds option digit of such an utterance is returned.
C8_NoIsAWord ==
    Parsed =>
        /\ Heard = Word.no => last.ret = SelDifferent
        /\ NoOnlyInsideWords => last.ret # SelDifferent
        /\ last.text = Say.number2 /\ last.stored >= 2 => last.ret = SelIndex(2)
        /\ last.text = Say.i_know_option1 /\ last.stored >= 1 => last.ret = SelIndex(1)

C8_Witness ==
    /\ Parsed
    /\ last.text = Say.i_know_option1
    /\ NoOnlyInsideWords
    /\ last.stored = 3
    /\ last.ret = SelIndex(1)

\* ------------------------------------------------------------------------
\* Properties of the calendar functions (specification SpecFn)
\* ------------------------------------------------------------------------
Checked == last.op = "has_conflict"
Suggested == last.op = "suggest" /\ last.ret.err = ""

E_14_15 == Ev(1, At(1, 14, 0), At(1, 15, 0), "ok")

\* the event's interval, widened by the buffer on both ends, meets [s, e]
MeetsBuffered(ev, s, e) ==
    /\ s < ev.e + BUFFER_MINUTES
    /\ e > ev.s - BUFFER_MINUTES

\* C1: the conflict check answers true exactly if some well-formed existing
\* event, widened by 15 minutes on both ends, meets the candidate; a
\* candidate that touches the widened event is no conflict.
C1_ConflictIffBufferedOverlap ==
    Checked /\ last.ret \in {"True", "False"} =>
        /\ last.ret = "True" <=>
             \E i \in DOMAIN last.existing :
                 /\ last.existing[i].kind = "ok"
                 /\ MeetsBuffered(last.existing[i], last.new_start.t, last.new_end.t)
        /\ last.existing = <<E_14_15>> =>
             /\ last.new_start.t = At(1, 14, 50) => last.ret = "True"
             /\ last.new_start.t = At(1, 15, 20) => last.ret = "False"
             /\ last.new_start.t = At(1, 15, 15) => last.ret = "False"
             /\ last.new_end.t = At(1, 13, 45) => last.ret = "False"

C1_Witness ==
    /\ Checked
    /\ last.existing = <<E_14_15>>
    /\ last.new_start.t = At(1, 15, 15)
    /\ last.ret = "False"

\* C2: no returned slot has a buffered conflict with the existing events
\* given to the call, nor, for a next-day slot, with the events fetched for
\* the next day.
C2_SlotsConflictFree ==
    Suggested =>
        \A i \in DOMAIN last.ret.val :
            LET slot == last.ret.val[i] IN
            /\ has_conflict_with_buffer(last.existing, slot.start, slot.end) = "False"
            /\ slot.strategy \in {"next_day_same_time", "next_day_available"} =>
                   has_conflict_with_buffer(last.next_day_events, slot.start,
                                            slot.end) = "False"

\* C3: at most num_suggestions slots are returned.
C3_AtMostN ==
    Suggested => Len(last.ret.val) <= last.num_suggestions

C3_Witness ==
    /\ Suggested
    /\ last.existing # <<>>
    /\ last.num_suggestions = 2
    /\ Len(last.ret.val) = 2
    /\ last.ret.val[2].strategy = "earlier_same_day"

\* C4: no two returned slots start at the same minute.
C4_DistinctStarts ==
    Suggested =>
        \A i, j \in DOMAIN last.ret.val :
            i # j => last.ret.val[i].start.t # last.ret.val[j].start.t

\* ------------------------------------------------------------------------
\* The dialog: a scheduling turn, then, after a conflict, selection turns;
\* between the turns the calendar and the clock may change.
\* ------------------------------------------------------------------------
\* the events the calendar's list request can return: timed events, whose
\* dateTime strings carry an offset, and all-day events, which have no
\* start dateTime
DialogEvents == {ev \in CandidateEvents : ev.kind \in {"ok", "nostart"}}

DialogCalendars == {S \in SUBSET DialogEvents : Cardinality(S) <= MaxEvents}

Init ==
    /\ calendar \in DialogCalendars
    /\ clock \in Clocks
    /\ session = NewSession
    /\ created = <<>>
    /\ changes = 0
    /\ last = NoCall
    /\ ws = NoConnections

ClearedConflict(sess) ==
    [sess EXCEPT !.awaiting_conflict_resolution = FALSE,
                 !.has_conflict_data = FALSE,
                 !.conflict_data = NoConflictData]

\* process_meeting_scheduling; a conflict result is presented to the user.
\* After the list request the handler makes at most one more request to the
\* calendar (the next-day list on a conflict, else the insert): thenOk is
\* its outcome.
ScheduleTurn ==
    /\ last = NoCall
    /\ ~session.awaiting_conflict_resolution
    /\ Len(created) < MaxBookings
    /\ \E gpt_data \in TurnRequests, listOk, thenOk \in BOOLEAN :
        \E result \in {intelligent_schedule_handler(
                            fill_missing_fields_wrapper(gpt_data), calendar,
                            clock, listOk, thenOk, thenOk)} :
            /\ last' = [op |-> "schedule", gpt_data |-> gpt_data,
                        listOk |-> listOk,
                        bookings_before |-> Len(created), ret |-> result,
                        reply |-> Reply(result)]
            /\ session' =
                 IF result.status = "conflict"
                 THEN handle_conflict_resolution(session,
                          [suggestions |-> result.suggestions,
                           original_request |-> result.original_request],
                          gpt_data)
                 ELSE session
            /\ created' = IF result.created THEN Append(created, result.event)
                          ELSE created
            /\ calendar' = IF result.created
                           THEN Inserted(calendar, result.event, Len(created))
                           ELSE calendar
            /\ UNCHANGED <<ws, clock, changes>>

\* what a selection turn leaves behind
Selection(text, selection, result) ==
    /\ last' = [op |-> "select", text |-> text, selection |-> selection,
                presented |-> StoredSuggestions(session),
                meeting |-> session.original_meeting_data,
                partial_before |-> partial_details(session),
                bookings_before |-> Len(created), ret |-> result]
    /\ session' =
         IF selection.kind = "different" THEN ClearedConflict(session)
         ELSE IF result.status = "scheduled" THEN NewSession
         ELSE session
    /\ created' = IF result.created THEN Append(created, result.event)
                  ELSE created
    /\ calendar' = IF result.created
                   THEN Inserted(calendar, result.event, Len(created))
                   ELSE calendar
    /\ UNCHANGED <<ws, clock, changes>>

\* the utterance that answers the presented options
SelectTurn ==
    /\ last = NoCall
    /\ session.awaiting_conflict_resolution
    /\ Len(created) < MaxBookings
    /\ \E text \in SelectionUtterances :
        \E selection \in {process_conflict_selection(text,
                              Len(StoredSuggestions(session)))} :
            IF selection.kind = "index"
            THEN \E listOk, nextOk, createOk \in BOOLEAN :
                   Selection(text, selection,
                       schedule_suggested_slot(session.original_meeting_data,
                           selection.k, calendar, clock, listOk, nextOk, createOk))
            ELSE Selection(text, selection, NoResult)

\* the answer is sent and the connection waits for the next utterance
Respond ==
    /\ last # NoCall
    /\ last' = NoCall
    /\ UNCHANGED <<ws, calendar, clock, session, created, changes>>

\* between two turns somebody else adds an event to the calendar or removes
\* one
ExternalChange ==
    /\ last = NoCall
    /\ changes < MaxChanges
    /\ changes' = changes + 1
    /\ \/ \E ev \in DialogEvents \ calendar :
              /\ Cardinality(calendar) < MaxEvents + Len(created)
              /\ calendar' = calendar \cup {ev}
       \/ \E ev \in calendar : calendar' = calendar \ {ev}
    /\ UNCHANGED <<ws, clock, session, created, last>>

\* between two turns time passes
Tick ==
    /\ last = NoCall
    /\ \E later \in Clocks : later > clock /\ clock' = later
    /\ UNCHANGED <<ws, calendar, session, created, changes, last>>

Next == ScheduleTurn \/ SelectTurn \/ Respond \/ ExternalChange \/ Tick

Spec == Init /\ [][Next]_vars

\* C25: suggest_next_slot always returns one start time, never earlier
\* than the desired start, whatever well-timed or all-day events exist;
\* when the only existing event conflicts with the desired slot the result
\* is the event's end plus 15 minutes (desired 14:00, event 14:00-15:30:
\* 15:45).
C25_OneSlotNotBeforeDesired ==
    /\ last.op = "next_slot"
    /\ \A i \in DOMAIN last.existing : last.existing[i].kind # "naive"
    => /\ last.ret.err = ""
       /\ last.ret.val.t >= last.desired_start.t
       /\ /\ Len(last.existing) = 1
          /\ last.existing[1].kind = "ok"
          /\ Overlap(last.existing[1], last.desired_start,
                     Plus(last.desired_start, last.duration_minutes))
          => last.ret.val.t = last.existing[1].e + BUFFER_MINUTES
       /\ /\ last.existing = <<Ev(9, At(1, 14, 0), At(1, 15, 30), "ok")>>
          /\ last.desired_start.t = At(1, 14, 0)
          => last.ret.val.t = At(1, 15, 45)

\* the place of a slot's strategy in the order of the strategies
StrategyRank(strategy) ==
    CASE strategy = "next_available" -> 1
      [] strategy = "earlier_same_day" -> 2
      [] strategy \in {"next_day_same_time", "next_day_available"} -> 3
      [] strategy = "common_time" -> 4

NineLocal(d) ==
    (strftime(d) \div MinutesPerDay) * MinutesPerDay + 9 * 60 - d.off

\* C30: an earlier_same_day slot is proposed only if 09:00 local time on
\* the desired day lies before the desired start, and such a slot starts
\* at or after 09:00 and ends at or before the desired start.
C30_EarlierSlotInMorningRange ==
    Suggested =>
        \A i \in DOMAIN last.ret.val :
            last.ret.val[i].strategy = "earlier_same_day" =>
                /\ NineLocal(last.desired_start) < last.desired_start.t
                /\ last.ret.val[i].start.t >= NineLocal(last.desired_start)
                /\ last.ret.val[i].end.t <= last.desired_start.t

\* the earlier slot follows an existing event of the morning
C30_Witness ==
    /\ Suggested
    /\ Len(last.ret.val) >= 2
    /\ last.ret.val[2].strategy = "earlier_same_day"
    /\ last.desired_start.t = At(1, 14, 0)
    /\ last.ret.val[2].start.t = At(1, 11, 15)

\* C27: schedule_suggested_slot answers 'error' and creates no event when
\* the meeting data lack the title, the date or the time, or when the
\* option number lies outside 1..n for the n regenerated suggestions; no
\* exception leaves it.
C27_InvalidSelectionIsError ==
    last.op = "schedule_slot" =>
        /\ last.ret.status \in {"error", "scheduled"}
        /\ \/ last.original_meeting_data.title = ""
           \/ last.original_meeting_data.date = ""
           \/ last.original_meeting_data.time = NoTime
           \/ last.selected_option < 1
           \/ last.selected_option > Len(last.ret.slots)
           => /\ last.ret.status = "error"
              /\ ~last.ret.insert_called
              /\ ~last.ret.created

\* option 4 of three regenerated suggestions
C27_Witness ==
    /\ last.op = "schedule_slot"
    /\ last.original_meeting_data.title # ""
    /\ Len(last.ret.slots) = 3
    /\ last.selected_option = 4
    /\ last.ret.status = "error"

\* the fields of a request that do not pass validation, in the order
\* title, date, time, timezone
RECURSIVE Keep(_, _)
Keep(fields, invalid) ==
    IF fields = <<>> THEN <<>>
    ELSE (IF Head(fields) \in invalid THEN <<Head(fields)>> ELSE <<>>)
         \o Keep(Tail(fields), invalid)

InvalidFields(gpt_data) ==
    (IF gpt_data.title = "" THEN {"title"} ELSE {})
    \cup (IF gpt_data.date \notin {"2024-12-15", "2024-12-16"}
          THEN {"date"} ELSE {})
    \cup (IF gpt_data.time.fmt \notin {"%H:%M", "%I:%M %p", "%I:%M%p", "%I %p",
                                       "%I%p", "%H"}
          THEN {"time"} ELSE {})
    \cup (IF gpt_data.timezone \notin {"UTC", "Europe/Paris"}
          THEN {"timezone"} ELSE {})

\* C28: when the title is empty, the date or the time fails validation or
\* the timezone is unknown, intelligent_schedule_handler answers
\* 'missing_info', its 'missing' list names exactly the invalid fields, and
\* it neither lists the events of the calendar nor inserts one.
C28_InvalidFieldsAreMissingInfo ==
    last.op = "handler" /\ InvalidFields(last.gpt_data) # {} =>
        /\ last.ret.status = "missing_info"
        /\ last.ret.missing
             = Keep(<<"title", "date", "time", "timezone">>,
                    InvalidFields(last.gpt_data))
        /\ ~last.ret.listed
        /\ ~last.ret.insert_called
        /\ ~last.ret.created

\* a date in another form and an unknown timezone
C28_Witness ==
    /\ last.op = "handler"
    /\ last.gpt_data.date = "15/12/2024"
    /\ last.ret.status = "missing_info"
    /\ last.ret.missing = <<"date", "timezone">>

\* the entries of a list at the positions in idx, in list order
RECURSIVE AtPositions(_, _, _)
AtPositions(l, i, idx) ==
    IF i > Len(l) THEN <<>>
    ELSE (IF i \in idx THEN <<l[i]>> ELSE <<>>) \o AtPositions(l, i + 1, idx)

\* C29: the attendee list never blocks a booking: whatever it holds,
\* schedule_event hands the event to the calendar's insert, and the event's
\* attendees are exactly the entries that are strings containing '@', in
\* the order of the list; every other entry is dropped.
C29_AttendeesFilteredNotBlocking ==
    last.op = "schedule_event" =>
        /\ last.ret.insert_called
        /\ last.insertOk => last.ret.created /\ ~last.ret.raised
        /\ last.ret.attendees
             = AtPositions(last.attendees, 1,
                   {i \in DOMAIN last.attendees :
                       /\ last.attendees[i].str
                       /\ "@" \in {last.attendees[i].text[k] :
                                      k \in DOMAIN last.attendees[i].text}})

\* a bare name between two addresses, the second address first
C29_Witness ==
    /\ last.op = "schedule_event"
    /\ last.ret.created
    /\ Len(last.attendees) = 3
    /\ last.attendees[2].text = <<"b", "o", "b">>
    /\ last.ret.attendees = <<last.attendees[1], last.attendees[3]>>
    /\ last.attendees[1].text = <<"b", "@", "x">>
    /\ last.attendees[3].text = <<"a", "@", "x">>

\* C24: the conflict check is symmetric for single events: A as candidate
\* against the existing event B gives the answer that B as candidate gives
\* against the existing event A.
C24_ConflictSymmetric ==
    Checked /\ Len(last.existing) = 1 /\ last.existing[1].kind = "ok" =>
        last.ret = has_conflict_with_buffer(
                       <<Ev(0, last.new_start.t, last.new_end.t, "ok")>>,
                       ParseStart(last.existing[1]), ParseEnd(last.existing[1]))

\* the candidate starts 10 minutes after the existing event ends
C24_Witness ==
    /\ Checked
    /\ last.existing = <<E_14_15>>
    /\ last.new_start.t = At(1, 15, 10)
    /\ last.ret = "True"

\* C31: the third strategy contributes at most one slot per call: the
\* desired start plus 24 hours, tagged next_day_same_time, when that
\* interval has no buffered conflict with the events of the next day,
\* otherwise a next_day_available slot whose start lies within the 12 hours
\* that follow the desired start plus 24 hours.
C31_NextDaySlotWithinWindow ==
    Suggested =>
        LET next_day_slot == Plus(last.desired_start, MinutesPerDay)
            free == has_conflict_with_buffer(last.next_day_events, next_day_slot,
                        Plus(next_day_slot, DEFAULT_MEETING_DURATION)) = "False"
            third == {i \in DOMAIN last.ret.val :
                         last.ret.val[i].strategy
                             \in {"next_day_same_time", "next_day_available"}}
        IN  /\ Cardinality(third) <= 1
            /\ \A i \in third :
                   IF free
                   THEN /\ last.ret.val[i].strategy = "next_day_same_time"
                        /\ last.ret.val[i].start.t = next_day_slot.t
                   ELSE /\ last.ret.val[i].strategy = "next_day_available"
                        /\ last.ret.val[i].start.t >= next_day_slot.t
                        /\ last.ret.val[i].start.t
                               <= next_day_slot.t + NextDayWindowHours * 60

\* the k-th common time of the desired day is after now, differs from the
\* desired start and has no buffered conflict with the existing events
CommonTimeFree(k) ==
    LET common_time_slot == ReplaceHour(last.desired_start, common_times[k])
    IN  /\ common_time_slot.t # last.desired_start.t
        /\ common_time_slot.t > clock
        /\ has_conflict_with_buffer(last.existing, common_time_slot,
               Plus(common_time_slot, DEFAULT_MEETING_DURATION)) = "False"

\* C32: for every num_suggestions the result of suggest_multiple_slots
\* contains at most one common_time slot, and it is the earliest of 10:00,
\* 14:00 and 16:00 on the desired day that is strictly after now, differs
\* from the desired start and has no buffered conflict.
C32_OneCommonTimeSlot ==
    Suggested =>
        LET common == {i \in DOMAIN last.ret.val :
                          last.ret.val[i].strategy = "common_time"}
        IN  /\ Cardinality(common) <= 1
            /\ \A i \in common :
                   \E k \in DOMAIN common_times :
                       /\ last.ret.val[i].start.t
                              = ReplaceHour(last.desired_start, common_times[k]).t
                       /\ CommonTimeFree(k)
                       /\ \A j \in 1..(k - 1) : ~CommonTimeFree(j)

\* the events fetched for the search window of the last find_event call
WindowEvents ==
    LET w == SearchWindow(last.date_str, last.time_str, last.timezone)
    IN  fetch_existing_events(calendar, w.window_start, w.window_end,
                              last.requestOk)

\* find_event was called with a date, a time and a timezone that parse
FindCalled ==
    /\ last.op = "find_event"
    /\ is_valid_date(last.date_str)
    /\ last.time_str # NoTime => CanConvertTime(last.time_str)

\* the distance of an event's start to the target of the last call
TargetDistance(e) ==
    LET target == SearchWindow(last.date_str, last.time_str, last.timezone).target_start.t
    IN  IF e.s >= target THEN e.s - target ELSE target - e.s

TitleScore(e) == fuzz_ratio(Lower(Strip(last.title)), Lower(Strip(Summary(e))))

\* the events fetched for the window that carry a title
TitledEvents == SelectSeq(WindowEvents, LAMBDA e : Strip(Summary(e)) # <<>>)

\* C34: with a title given and at least one titled event in the window,
\* find_event returns an event of maximal similarity score and, among the
\* events of that score, one closest in time to the target; it is returned
\* even when the score is below 75, and None is returned only when no
\* event of the window carries a title.
C34_BestTitleMatch ==
    FindCalled /\ Strip(last.title) # <<>> /\ TitledEvents # <<>> =>
        /\ last.ret.found
        /\ \E i \in DOMAIN TitledEvents : TitledEvents[i] = last.ret.event
        /\ \A j \in DOMAIN TitledEvents :
               LET a == TitleScore(last.ret.event)
                   b == TitleScore(TitledEvents[j])
               IN  \/ a.num * b.den > b.num * a.den
                   \/ /\ a.num * b.den = b.num * a.den
                      /\ TargetDistance(last.ret.event)
                             <= TargetDistance(TitledEvents[j])

C36_NaiveEventRejected ==
    /\ Checked =>
           \A i \in DOMAIN last.existing :
               last.existing[i].kind = "naive" =>
                   \/ last.ret = "ValueError"
                   \/ /\ last.ret = "True"
                      /\ has_conflict_with_buffer(SubSeq(last.existing, 1, i - 1),
                             last.new_start, last.new_end) = "True"
    /\ last.op = "next_slot" =>
           LET sorted == SortByStart(last.existing) IN
           \A i \in DOMAIN sorted :
               sorted[i].kind = "naive" =>
                   \/ last.ret.err \in {"ValueError", "TypeError"}
                   \/ /\ last.ret = suggest_next_slot(SubSeq(sorted, 1, i - 1),
                                        last.desired_start, last.duration_minutes)
                      /\ \E j \in 1..(i - 1) :
                             /\ sorted[j].kind = "ok"
                             /\ last.ret.val.t + last.duration_minutes
                                    <= sorted[j].s - BUFFER_MINUTES

\* the sweep passes the 10:00 event and reaches the event 13:00-13:30
\* without offset
C36_Witness ==
    /\ last.op = "next_slot"
    /\ Len(last.existing) = 2
    /\ last.existing[1].kind = "ok"
    /\ last.existing[2].kind = "naive"
    /\ last.ret.err = "ValueError"

\* C37: the start suggest_next_slot returns is the earliest start at or
\* after the desired start whose interval of the given duration has no
\* buffered conflict with any existing event: it is not before the desired
\* start, it is conflict-free, and every start between the desired start
\* and it conflicts (existing events with UTC offsets).
C37_EarliestFreeStart ==
    /\ last.op = "next_slot"
    /\ last.ret.err = ""
    /\ \A i \in DOMAIN last.existing : last.existing[i].kind # "naive"
    => /\ last.ret.val.t >= last.desired_start.t
       /\ has_conflict_with_buffer(last.existing, last.ret.val,
              Plus(last.ret.val, last.duration_minutes)) = "False"
       /\ \A t \in last.desired_start.t .. (last.ret.val.t - 1) :
              has_conflict_with_buffer(last.existing, DT(t, 0),
                  DT(t + last.duration_minutes, 0)) = "True"

\* 14:00 desired, events 14:00-15:00 and 15:30-16:30: the gap between them
\* is too short for an hour, the first free start is 16:45
C37_Witness ==
    /\ last.op = "next_slot"
    /\ last.desired_start.t = At(1, 14, 0)
    /\ last.duration_minutes = DEFAULT_MEETING_DURATION
    /\ Len(last.existing) = 2
    /\ last.existing[1].kind = "ok"
    /\ last.existing[2].kind = "ok"
    /\ last.ret.err = ""
    /\ last.ret.val.t = At(1, 16, 45)

\* C38: every time string that is_valid_time accepts is also accepted by
\* convert_time_to_24hour, so a request whose four fields passed the
\* validation of intelligent_schedule_handler never ends with status
\* 'error' for an invalid date/time format.
C38_ValidTimeConverts ==
    last.op = "handler" /\ MissingFields(last.gpt_data) = <<>> =>
        /\ CanConvertTime(last.gpt_data.time)
        /\ last.ret.status # "error"

\* C40: every event that fetch_existing_events returns carries an id, so
\* when cancel_event or reschedule_event finds a matching event it makes
\* the delete or the patch request with that id (reschedule_event: when the
\* new date and time parse); the answer 'Event found but missing id.' never
\* occurs, and 'cancelled' is answered only after the delete succeeded.
C40_FoundEventHasId ==
    last.op \in {"cancel", "reschedule"} =>
        /\ last.ret.message # "Event found but missing id."
        /\ last.ev.found /\ last.ret.message # "Invalid new date/time" =>
               /\ last.ret.request = (IF last.op = "cancel" THEN "delete" ELSE "patch")
               /\ last.ret.event_id = last.ev.event.id
        /\ last.ret.status = "cancelled" =>
               last.ret.request = "delete" /\ last.deleteOk

\* ------------------------------------------------------------------------
\* Properties of the dialog (specification Spec)
\* ------------------------------------------------------------------------
Selected == last.op = "select" /\ last.selection.kind = "index"

\* C9: the event booked for option k starts and ends as the k-th suggestion
\* that was presented to the user.
C9_BookedIsPresented ==
    Selected /\ last.ret.status = "scheduled" =>
        LET k == last.ret.selected_option IN
        /\ k \in DOMAIN last.presented
        /\ strftime(last.ret.event.start) = last.presented[k].start
        /\ strftime(last.ret.event.end) = last.presented[k].end

\* the selected slot of the freshly generated list has a buffered conflict
\* with the events fetched at selection time
ChosenConflicts ==
    /\ Selected
    /\ last.ret.selected_option # 0
    /\ has_conflict_with_buffer(last.ret.existing, last.ret.event.start,
                                last.ret.event.end) = "True"

\* C10: a slot that conflicts with the events fetched at selection time is
\* never booked: the result is an error and no event is inserted.
C10_RevalidatedBeforeBooking ==
    ChosenConflicts =>
        /\ last.ret.status = "error"
        /\ ~last.ret.insert_called
        /\ Len(created) = last.bookings_before

C10_Witness ==
    /\ ChosenConflicts
    /\ last.ret.status = "error"
    /\ last.ret.event.start.t = At(1, 9, 0)
    /\ Len(created) = last.bookings_before

\* the interval a complete request asks for
RequestedStart(gpt_data) ==
    Localize(gpt_data.date, convert_time_to_24hour(gpt_data.time), gpt_data.timezone)

RequestedEnd(gpt_data) == Plus(RequestedStart(gpt_data), DEFAULT_MEETING_DURATION)

\* the scheduling handler got as far as the fetch of the existing events
Checking == last.op = "schedule" /\ last.ret.listed

\* the requested interval has a buffered conflict with the fetched events
RequestConflicts ==
    has_conflict_with_buffer(last.ret.existing, RequestedStart(last.gpt_data),
                             RequestedEnd(last.gpt_data)) = "True"

\* C11: for a request with valid fields the insert is made exactly once when
\* the requested interval has no buffered conflict with the fetched events
\* (and what it created is reported as scheduled), and not at all when it
\* has one: the result is then a conflict with 1 to 3 suggestions numbered
\* 1, 2, ...
C11_InsertIffNoConflict ==
    Checking =>
        IF RequestConflicts
        THEN /\ ~last.ret.insert_called
             /\ Len(created) = last.bookings_before
             /\ last.ret.status = "conflict"
             /\ Len(last.ret.suggestions) \in 1..3
             /\ \A i \in DOMAIN last.ret.suggestions :
                    last.ret.suggestions[i].option = i
        ELSE /\ last.ret.insert_called
             /\ last.ret.created <=> last.ret.status = "scheduled"
             /\ Len(created) = last.bookings_before
                                 + (IF last.ret.created THEN 1 ELSE 0)

Filled == last.op = "fill"

\* a field holds one value
HasValue(value) == value.key # "" /\ ~value.list

ValidTitle(value) == HasValue(value) /\ value.items[1] # ""
ValidDate(value) == HasValue(value) /\ is_valid_date(value.items[1])
ValidTime(value) == HasValue(value) /\ is_valid_time(value.items[1])

\* the required fields that are missing or invalid, in the order title,
\* date, time
MissingRequired(details) ==
    (IF ValidTitle(details.title) THEN <<>> ELSE <<"title">>)
    \o (IF ValidDate(details.date) THEN <<>> ELSE <<"date">>)
    \o (IF ValidTime(details.time) THEN <<>> ELSE <<"time">>)

Complete(details) == MissingRequired(details) = <<>>

\* C13: a turn whose combined details still lack a valid required field
\* leaves them stored in the session; stored details are removed only on a
\* turn where title, date and time are all valid.
C13_PartialKeptUntilComplete ==
    Filled /\ ~Complete(last.ret.details) =>
        /\ session.has_partial_meeting_details
        /\ session.partial_meeting_details = last.ret.details
\* C14: the combined details hold, for every field, the value of the turn
\* if the turn supplied the field (the first element of a non-empty list of
\* dates or times), otherwise the value stored before.
C14_TurnValueElseStored ==
    Filled =>
        \A field \in {"title", "date", "time"} :
            LET turn == last.entities[field]
                combined == last.ret.details[field]
            IN  IF turn.key = "" THEN combined = last.stored[field]
                ELSE IF field # "title" /\ turn.list /\ turn.items # <<>>
                THEN combined = Single(field, turn.items[1])
                ELSE combined = [turn EXCEPT !.key = field]

C14_Witness ==
    /\ Filled
    /\ last.stored = Details(Single("title", "Standup"), Single("date", "2024-12-15"),
                             Single("time", TimeStr("%H:%M", 14, 0)))
    /\ last.entities = Details(Absent, Absent, Single("time", TimeStr("%I %p", 17, 0)))
    /\ last.ret.details = Details(Single("title", "Standup"),
                                  Single("date", "2024-12-15"),
                                  Single("time", TimeStr("%I %p", 17, 0)))

\* C15: when a required field of the combined details is missing or
\* invalid, a clarification is requested for the first such field only
\* (title, date, time), nothing is returned for scheduling and the details
\* stay stored.
C15_ClarifyFirstMissing ==
    Filled /\ ~Complete(last.ret.details) =>
        /\ last.ret.clarifications = <<Head(MissingRequired(last.ret.details))>>
        /\ ~last.ret.returned
        /\ session.has_partial_meeting_details

\* C16: when date and time are known from the turns before and the title
\* is not, a turn that supplies only a title yields combined details with
\* title, date and time, which are returned for scheduling.
C16_EarlierDetailsPersist ==
    /\ Filled
    /\ ValidDate(last.known_before.date)
    /\ ValidTime(last.known_before.time)
    /\ ~ValidTitle(last.known_before.title)
    /\ ValidTitle(last.entities.title)
    /\ last.entities.date = Absent
    /\ last.entities.time = Absent
    => /\ Complete(last.ret.details)
       /\ last.ret.returned
\* ------------------------------------------------------------------------
\* Further properties of the dialog (specification Spec)
\* ------------------------------------------------------------------------
\* the user answered the presented options with 'actually none of these,
\* cancel'
RejectedAll == last.op = "select" /\ last.text = Say.actually_none

AsDetails(gpt_data) ==
    Details(IF gpt_data.title = "" THEN Absent ELSE Single("title", gpt_data.title),
            IF gpt_data.date = "" THEN Absent ELSE Single("date", gpt_data.date),
            IF gpt_data.time = NoTime THEN Absent ELSE Single("time", gpt_data.time))

\* the session holds the details of the request
HoldsRequest(sess, gpt_data) ==
    \/ sess.original_meeting_data = gpt_data
    \/ partial_details(sess) = AsDetails(gpt_data)

\* the insert of a scheduling turn failed
InsertFailed ==
    last.op = "schedule" /\ last.ret.insert_called /\ ~last.ret.created

\* C18: when the insert fails, no event is reported as scheduled, the user
\* is told that the meeting could not be scheduled, and the session still
\* holds the meeting details of the attempt, so that the next turn need not
\* state them again.
C18_FailedInsertKeepsDetails ==
    InsertFailed =>
        /\ last.reply.status \notin {"scheduled", "success"}
        /\ last.reply.text \in {"I couldn't schedule the meeting",
                                 "Sorry, scheduling failed"}
        /\ Len(created) = last.bookings_before
        /\ HoldsRequest(session, last.gpt_data)

\* C19: when the list request of the conflict check fails, the turn creates
\* no event and the user is asked to try again: the failure is not taken
\* for an empty calendar.
C19_FailedListCreatesNothing ==
    last.op = "schedule" /\ last.ret.listed /\ ~last.listOk =>
        /\ ~last.ret.insert_called
        /\ Len(created) = last.bookings_before
        /\ last.reply.text \in {"I couldn't schedule the meeting",
                                 "Sorry, scheduling failed"}
        /\ last.ret.status # "scheduled"

\* C39: whenever intelligent_schedule_handler has created the event (its
\* result has status 'scheduled'), the prompt process_meeting_scheduling
\* sends to the user reports that the meeting was scheduled, never the
\* could-not-schedule message.
C39_ScheduledIsReported ==
    last.op = "schedule" /\ last.ret.status = "scheduled" =>
        /\ last.ret.created
        /\ last.reply.text = "Perfect! I've successfully scheduled your meeting"
        /\ last.reply.text # "I couldn't schedule the meeting"

\* ------------------------------------------------------------------------
\* The connections: websocket_endpoint receives the messages of a
\* connection one after the other and awaits the handler of each before it
\* receives the next
\* ------------------------------------------------------------------------
InitWs ==
    /\ calendar = {}
    /\ clock = At(0, 12, 0)
    /\ session = NewSession
    /\ created = <<>>
    /\ changes = 0
    /\ last = NoCall
    /\ ws = NoConnections

\* websocket.accept() and the registration of the session
Connect(id) ==
    /\ ws.at[id] = "closed"
    /\ ws' = [ws EXCEPT !.audio_processors = Put(@, id, FALSE),
                        !.processing_status = Put(@, id, FALSE),
                        !.active_sessions =
                            Put(@, id, [processing |-> FALSE,
                                        audio_buffer |-> FALSE]),
                        !.client[id] = TRUE,
                        !.at[id] = "receive"]
    /\ UNCHANGED <<calendar, clock, session, created, changes, last>>

\* the client sends an audio chunk or a control message; it waits until
\* the endpoint receives it
Arrive(id) ==
    /\ ws.at[id] # "closed"
    /\ ws.client[id]
    /\ Len(ws.inbox[id]) < MaxInbox
    /\ \E message \in {"audio", "start_recording", "stop_recording", "ping"} :
           ws' = [ws EXCEPT !.inbox[id] = Append(@, message)]
    /\ UNCHANGED <<calendar, clock, session, created, changes, last>>

\* the client closes its end of the socket; the endpoint learns of it when
\* it next awaits websocket.receive()
Close(id) ==
    /\ ws.at[id] # "closed"
    /\ ws.client[id]
    /\ ws' = [ws EXCEPT !.client[id] = FALSE]
    /\ UNCHANGED <<calendar, clock, session, created, changes, last>>

\* process_complete_audio begins; the caller awaits it at position
BeginTurn(conn, id, position) ==
    [conn EXCEPT !.active_sessions[id].processing = TRUE,
                 !.active_sessions[id].audio_buffer = TRUE,
                 !.audio_processors[id] = FALSE,
                 !.turns[id] = @ + 1,
                 !.at[id] = position]

\* audio_processors[id] tells whether the processor's buffer holds a chunk;
\* should_process is the answer of add_audio_chunk
handle_audio_data_smart(conn, id, should_process) ==
    IF conn.processing_status[id] THEN conn
    ELSE IF ~should_process THEN [conn EXCEPT !.audio_processors[id] = TRUE]
    ELSE BeginTurn([conn EXCEPT !.processing_status[id] = TRUE], id, "audio")

handle_control_message_new(conn, id, event) ==
    IF event = "start_recording"
    THEN [conn EXCEPT !.audio_processors[id] = FALSE,
                      !.active_sessions[id].audio_buffer = FALSE]
    ELSE IF event = "stop_recording" /\ conn.audio_processors[id]
    THEN BeginTurn(conn, id, "stop")
    ELSE conn

\* the oldest waiting message is handed to its handler
Dispatch(id) ==
    /\ ws.inbox[id] # <<>>
    /\ \E received \in {[ws EXCEPT !.inbox[id] = Tail(@)]} :
         IF Head(ws.inbox[id]) = "audio"
         THEN \E should_process \in BOOLEAN :
                ws' = handle_audio_data_smart(received, id, should_process)
         ELSE ws' = handle_control_message_new(received, id, Head(ws.inbox[id]))
    /\ UNCHANGED <<calendar, clock, session, created, changes, last>>

\* as Receive, the handler started without awaiting the one before
Receive_unawaited(id) == Dispatch(id)

\* message = await websocket.receive() and the call of the handler
Receive(id) == ws.at[id] = "receive" /\ Dispatch(id)

\* as EndTurn, the cleanup of a turn that an exception ended left out
EndTurn_returned_only(conn, id, how) ==
    [conn EXCEPT !.active_sessions[id].processing =
                     IF how = "returned" THEN FALSE ELSE @,
                 !.active_sessions[id].audio_buffer = FALSE,
                 !.processing_status[id] =
                     IF how = "returned" THEN FALSE ELSE @,
                 !.turns[id] = @ - 1,
                 !.at[id] = "receive"]

\* the turn leaves the try block of process_complete_audio, by a return
\* or by the exception of a stage: the finally blocks of
\* process_complete_audio and of handle_audio_data_smart run and the
\* handler that awaited the turn returns
EndTurn(conn, id, how) ==
    [conn EXCEPT !.active_sessions[id].processing = FALSE,
                 !.active_sessions[id].audio_buffer = FALSE,
                 !.processing_status[id] =
                     IF conn.at[id] = "audio" THEN FALSE ELSE @,
                 !.turns[id] = @ - 1,
                 !.at[id] = "receive"]

\* what the latest turn that ended leaves behind: how it left the try
\* block ("returned", or the stage whose exception ended it), whether the
\* client's end of the socket was open then, and whether the turn created
\* an event
Ended(conn, id, how, event_created) ==
    [op |-> "turn", id |-> id, ended |-> how, client |-> conn.client[id],
     created |-> event_created]

\* process_meeting_scheduling: the handler is called whether or not the
\* client is still there, and its exception is answered inside.  The
\* request is complete or lacks its title; the list request succeeds and
\* thenOk is the outcome of the request after it.
process_meeting_scheduling(id) ==
    \E title \in {"Standup", ""}, thenOk \in BOOLEAN :
      \E gpt_data \in {GptData(title, "2024-12-15", TimeStr("%H:%M", 14, 0), "UTC")} :
        \E result \in {intelligent_schedule_handler(
                            fill_missing_fields_wrapper(gpt_data), calendar,
                            clock, TRUE, thenOk, thenOk)} :
            /\ result.created => Len(created) < MaxBookings
            /\ last' = Ended(ws, id, IF result.status = "raised"
                                     THEN "schedule" ELSE "returned",
                             result.created)
            /\ created' = IF result.created THEN Append(created, result.event)
                          ELSE created
            /\ calendar' = IF result.created
                           THEN Inserted(calendar, result.event, Len(created))
                           ELSE calendar

\* the body of a turn.  An exception of the speech-to-text stage (saving
\* the audio, enhanced_speech_to_text, sending the transcription) ends the
\* turn; an exception of process_with_gpt is answered and the turn returns,
\* as it does for an exit command or an intent other than schedule_meeting;
\* else the meeting is scheduled.  Then the finally blocks run.
process_complete_audio(id) ==
    /\ ws.at[id] \in {"audio", "stop"}
    /\ \E outcome \in {"stt", "gpt", "returned", "schedule_meeting"} :
         IF outcome = "schedule_meeting"
         THEN process_meeting_scheduling(id)
         ELSE /\ last' = Ended(ws, id, outcome, FALSE)
              /\ UNCHANGED <<calendar, created>>
    /\ ws' = EndTurn(ws, id, last'.ended)
    /\ UNCHANGED <<clock, session, changes>>

\* as Disconnect, the entry of processing_status left behind
Disconnect_keeps_status(id) ==
    /\ ws.at[id] = "receive"
    /\ ~ws.client[id]
    /\ ws.inbox[id] = <<>>
    /\ ws' = [ws EXCEPT !.audio_processors = Pop(@, id),
                        !.active_sessions = Pop(@, id),
                        !.at[id] = "closed"]
    /\ UNCHANGED <<calendar, clock, session, created, changes, last>>

\* the messages sent before the close have been received; receive()
\* reports the disconnect and the endpoint cleans up
Disconnect(id) ==
    /\ ws.at[id] = "receive"
    /\ ~ws.client[id]
    /\ ws.inbox[id] = <<>>
    /\ ws' = [ws EXCEPT !.audio_processors = Pop(@, id),
                        !.processing_status = Pop(@, id),
                        !.active_sessions = Pop(@, id),
                        !.at[id] = "closed"]
    /\ UNCHANGED <<calendar, clock, session, created, changes, last>>

NextWs ==
    \E id \in Sessions :
        \/ Connect(id) \/ Arrive(id) \/ Close(id) \/ Receive(id)
        \/ process_complete_audio(id) \/ Disconnect(id)

SpecWs == InitWs /\ [][NextWs]_vars

\* ------------------------------------------------------------------------
\* Properties of the connections (specification SpecWs)
\* ------------------------------------------------------------------------
\* C20: at most one turn of a session is in flight at any time: an audio
\* segment or a stop_recording message that arrives while a turn is being
\* processed starts no second turn beside it.
C20_OneTurnInFlight ==
    \A id \in Sessions :
        /\ ws.turns[id] <= 1
        /\ ws.turns[id] = 1 <=> ws.at[id] \in {"audio", "stop"}

C20_Witness ==
    /\ ws.turns[1] = 1
    /\ ws.at[1] = "stop"
    /\ ws.inbox[1] = <<"audio">>
    /\ ws.turns[2] = 1
    /\ ws.inbox[2] = <<"stop_recording">>

\* C21: whenever a turn has ended, by a return or by an exception of the
\* speech-to-text, the entity extraction or the scheduling, the session's
\* processing flags are cleared: a connection that awaits its next message
\* is never locked, so a later audio segment can start a new turn.
C21_TurnEndClearsProcessing ==
    \A id \in Sessions :
        ws.at[id] = "receive" =>
            /\ ~ws.active_sessions[id].processing
            /\ ~ws.processing_status[id]

\* an exception of the speech-to-text ended the latest turn, which was the
\* first connection's, and a later audio segment has started its next turn
C21_Witness ==
    /\ last # NoCall
    /\ last.id = 1
    /\ last.ended = "stt"
    /\ ws.at[1] = "audio"
    /\ ws.active_sessions[1].processing

\* C22: when the client closes the connection while a turn is in flight,
\* the turn creates no calendar event, and once the endpoint has noticed the
\* disconnect the session is deleted.
C22_NothingAfterClose ==
    /\ last # NoCall /\ ~last.client => ~last.created
    /\ \A id \in Sessions :
           ws.at[id] = "closed" => id \notin DOMAIN ws.active_sessions

\* C23: the three registries hold an entry for exactly the connections
\* between accept and disconnect: they have the same keys at all times,
\* one per open connection, and none of a connection that has
\* disconnected.
C23_RegistriesFollowConnections ==
    /\ DOMAIN ws.active_sessions = {id \in Sessions : ws.at[id] # "closed"}
    /\ DOMAIN ws.audio_processors = DOMAIN ws.active_sessions
    /\ DOMAIN ws.processing_status = DOMAIN ws.active_sessions

\* the first connection has had a turn and has disconnected while the
\* second is open
C23_Witness ==
    /\ last # NoCall
    /\ last.id = 1
    /\ ws.at[1] = "closed"
    /\ ws.at[2] = "receive"
    /\ DOMAIN ws.processing_status = {2}

============================================================================
